---- MODULE Spec2Model ----
(***************************************************************************)
(* Cascading documentation search of mcp-autogen-doc: searchAutoGenDocs    *)
(* tries the Sphinx search index, then the rendered search page, then a    *)
(* crawl of curated pages (fallbackSearch).                                *)
(*                                                                         *)
(* JavaScript strings are sequences of one-character strings, so that      *)
(* includes, startsWith, toLowerCase, trim, split and substring are        *)
(* computed character by character as the code computes them.              *)
(***************************************************************************)
EXTENDS Integers, Sequences, FiniteSets, TLC

(***************************************************************************)
(* Bounds of the model.                                                    *)
(***************************************************************************)
\* limits range over 0..MaxLimit
MaxLimit == 2
\* a search index holds at most MaxDocs paired documents
MaxDocs == 2
\* a rendered search page holds at most MaxLinks links in its results section
MaxLinks == 2
\* resolutions replayed against one fixed site
MaxCalls == 2

(***************************************************************************)
(* String constants of the source.                                         *)
(***************************************************************************)
\* 'https://microsoft.github.io/autogen'
AUTOGEN_BASE_URL ==
    <<"h","t","t","p","s",":","/","/","m","i","c","r","o","s","o","f","t",".","g","i","t","h","u","b",".","i","o","/","a","u","t","o","g","e","n">>

\* 'microsoft.github.io/autogen', the text the link filters look for
DocSiteText ==
    <<"m","i","c","r","o","s","o","f","t",".","g","i","t","h","u","b",".","i","o","/","a","u","t","o","g","e","n">>

\* 'AutoGen documentation', the snippet used when no context is found
PlaceholderSnippet ==
    <<"A","u","t","o","G","e","n"," ","d","o","c","u","m","e","n","t","a","t","i","o","n">>

\* 'AutoGen Documentation', the title of last resort of the text-block scan
DefaultPageTitle ==
    <<"A","u","t","o","G","e","n"," ","D","o","c","u","m","e","n","t","a","t","i","o","n">>

(***************************************************************************)
(* JavaScript string operations.                                           *)
(***************************************************************************)
Min(a, b) == IF a <= b THEN a ELSE b

\* \s of the regular expressions and of trim(), on the characters in use
Whitespace == {" ", "\n"}

\* String.prototype.includes
Includes(s, t) ==
    \E i \in 1..(Len(s) - Len(t) + 1) : SubSeq(s, i, i + Len(t) - 1) = t

\* String.prototype.startsWith
StartsWith(s, t) == Len(t) <= Len(s) /\ SubSeq(s, 1, Len(t)) = t

LowerChar(c) ==
    CASE c = "A" -> "a" [] c = "B" -> "b" [] c = "C" -> "c" [] c = "D" -> "d"
      [] c = "E" -> "e" [] c = "F" -> "f" [] c = "G" -> "g" [] c = "H" -> "h"
      [] c = "I" -> "i" [] c = "J" -> "j" [] c = "K" -> "k" [] c = "L" -> "l"
      [] c = "M" -> "m" [] c = "N" -> "n" [] c = "O" -> "o" [] c = "P" -> "p"
      [] c = "Q" -> "q" [] c = "R" -> "r" [] c = "S" -> "s" [] c = "T" -> "t"
      [] c = "U" -> "u" [] c = "V" -> "v" [] c = "W" -> "w" [] c = "X" -> "x"
      [] c = "Y" -> "y" [] c = "Z" -> "z" [] OTHER -> c

\* String.prototype.toLowerCase
ToLowerCase(s) == [i \in 1..Len(s) |-> LowerChar(s[i])]

\* String.prototype.substring(0, n)
Substring(s, n) == SubSeq(s, 1, Min(n, Len(s)))

\* Array.prototype.slice(0, n) for an integer n >= 0
Slice(seq, n) == SubSeq(seq, 1, Min(n, Len(seq)))

RECURSIVE TrimStart(_)
TrimStart(s) ==
    IF s # << >> /\ Head(s) \in Whitespace THEN TrimStart(Tail(s)) ELSE s

RECURSIVE TrimEnd(_)
TrimEnd(s) ==
    IF s # << >> /\ s[Len(s)] \in Whitespace
    THEN TrimEnd(SubSeq(s, 1, Len(s) - 1)) ELSE s

\* String.prototype.trim
Trim(s) == TrimEnd(TrimStart(s))

\* s.replace(/\s+/g, ' '): every run of whitespace becomes one space
RECURSIVE CollapseWhitespace(_)
CollapseWhitespace(s) ==
    IF s = << >> THEN << >>
    ELSE IF Head(s) \in Whitespace
         THEN <<" ">> \o CollapseWhitespace(TrimStart(s))
         ELSE <<Head(s)>> \o CollapseWhitespace(Tail(s))

\* the longest prefix of s without whitespace
RECURSIVE FirstWord(_)
FirstWord(s) ==
    IF s = << >> \/ Head(s) \in Whitespace THEN << >>
    ELSE <<Head(s)>> \o FirstWord(Tail(s))

\* s.split(/\s+/).filter(term => term.length > 0)
RECURSIVE SplitTerms(_)
SplitTerms(s) ==
    LET t == TrimStart(s)
        w == FirstWord(t)
    IN  IF t = << >> THEN << >>
        ELSE <<w>> \o SplitTerms(SubSeq(t, Len(w) + 1, Len(t)))

\* encodeURIComponent on the characters in use: letters, digits and
\* - _ . ! ~ * ' ( ) stay, every other character is percent-encoded
EncodeChar(c) ==
    CASE c = " " -> <<"%","2","0">>
      [] c = "/" -> <<"%","2","F">>
      [] c = ":" -> <<"%","3","A">>
      [] c = "#" -> <<"%","2","3">>
      [] c = "?" -> <<"%","3","F">>
      [] OTHER -> <<c>>

\* cheerio's each(): Op applied to the elements of seq in order
RECURSIVE FoldLeft(_, _, _, _)
FoldLeft(Op(_, _), acc, seq, i) ==
    IF i > Len(seq) THEN acc ELSE FoldLeft(Op, Op(acc, seq[i]), seq, i + 1)

RECURSIVE EncodeURIComponent(_)
EncodeURIComponent(s) ==
    IF s = << >> THEN << >>
    ELSE EncodeChar(Head(s)) \o EncodeURIComponent(Tail(s))

(***************************************************************************)
(* Result entries and the structured-index strategy.                       *)
(***************************************************************************)
\* a SearchResult
Entry(title, url, snippet, type) ==
    [title |-> title, url |-> url, snippet |-> snippet, type |-> type]

\* the base URL of a documentation version
getVersionUrl(version) == AUTOGEN_BASE_URL \o <<"/">> \o version

\* lowercased, whitespace-separated, non-empty terms of the query
QueryTerms(query) == SplitTerms(ToLowerCase(query))

\* number of query terms found in the lowercased title (the sort key)
TitleMatches(title, queryTerms) ==
    Cardinality({k \in 1..Len(queryTerms) :
                    Includes(ToLowerCase(title), queryTerms[k])})

\* number of query terms found in the lowercased document name
DocnameMatches(docname, queryTerms) ==
    Cardinality({k \in 1..Len(queryTerms) :
                    Includes(ToLowerCase(docname), queryTerms[k])})

\* a score that looks at the title only
ScoreTitleOnly(title, docname, queryTerms) == 3 * TitleMatches(title, queryTerms)

\* +3 for every term in the title, +2 for every term in the document name
Score(title, docname, queryTerms) ==
    3 * TitleMatches(title, queryTerms) + 2 * DocnameMatches(docname, queryTerms)

\* the type of an index entry, from the path of its document name
InferType(docname) ==
    IF Includes(docname, <<"p","y","t","h","o","n","/">>)
    THEN <<"A","P","I"," ","R","e","f","e","r","e","n","c","e">>
    ELSE IF Includes(docname, <<"u","s","e","r","-","g","u","i","d","e","/">>)
    THEN <<"U","s","e","r"," ","G","u","i","d","e">>
    ELSE IF Includes(docname, <<"t","u","t","o","r","i","a","l","s","/">>)
    THEN <<"T","u","t","o","r","i","a","l">>
    ELSE IF Includes(docname, <<"c","o","m","p","o","n","e","n","t","s","/">>)
    THEN <<"C","o","r","e"," ","G","u","i","d","e">>
    ELSE <<"D","o","c","u","m","e","n","t","a","t","i","o","n">>

\* the entry pushed for a matching document
IndexEntry(title, docname, baseUrl) ==
    Entry(title, baseUrl \o <<"/">> \o docname \o <<".","h","t","m","l">>,
          InferType(docname), InferType(docname))

\* the collection loop: it runs while i is a title position and the list is
\* below the limit; reading the document name of an unpaired title raises
RECURSIVE CollectIndex(_, _, _, _, _, _)
CollectIndex(searchData, queryTerms, baseUrl, limit, i, results) ==
    IF i > Len(searchData.titles) \/ Len(results) >= limit
    THEN [results |-> results, threw |-> FALSE]
    ELSE IF i > Len(searchData.docnames)
    THEN [results |-> results, threw |-> TRUE]
    ELSE LET title == searchData.titles[i]
             docname == searchData.docnames[i]
         IN  CollectIndex(searchData, queryTerms, baseUrl, limit, i + 1,
                 IF Score(title, docname, queryTerms) > 0
                 THEN Append(results, IndexEntry(title, docname, baseUrl))
                 ELSE results)

\* e placed behind every entry with at least as many title matches
RECURSIVE InsertByMatches(_, _, _)
InsertByMatches(sorted, e, queryTerms) ==
    IF sorted = << >> THEN <<e>>
    ELSE IF TitleMatches(Head(sorted).title, queryTerms)
                >= TitleMatches(e.title, queryTerms)
         THEN <<Head(sorted)>> \o InsertByMatches(Tail(sorted), e, queryTerms)
         ELSE <<e>> \o sorted

\* results.sort((a, b) => bMatches - aMatches): stable, descending
RECURSIVE SortByTitleMatches(_, _)
SortByTitleMatches(results, queryTerms) ==
    IF results = << >> THEN << >>
    ELSE InsertByMatches(
             SortByTitleMatches(SubSeq(results, 1, Len(results) - 1), queryTerms),
             results[Len(results)], queryTerms)

\* the list the collection loop leaves, sorted unless the loop raised
SortCollected(collected, queryTerms) ==
    IF collected.threw THEN collected.results
    ELSE SortByTitleMatches(collected.results, queryTerms)

performIndexSearch(searchData, query, baseUrl, limit) ==
    LET queryTerms == QueryTerms(query)
        collected ==
            IF searchData.hasTitles /\ searchData.hasDocnames
            THEN CollectIndex(searchData, queryTerms, baseUrl, limit, 1, << >>)
            ELSE [results |-> << >>, threw |-> FALSE]
    IN  Slice(SortCollected(collected, queryTerms), limit)

(***************************************************************************)
(* The rendered search page: the links of the section under the heading    *)
(* that contains "Searching".                                              *)
(***************************************************************************)
\* relative hrefs are resolved against base
MakeAbsolute(url, base) ==
    IF StartsWith(url, <<"/">>) THEN base \o url
    ELSE IF ~StartsWith(url, <<"h","t","t","p">>) THEN base \o <<"/">> \o url
    ELSE url

\* the link filter of both link scans
IsDocSiteUrl(url) == Includes(url, DocSiteText)

\* positions of "(" from which /\(([^)]+)\)/ matches
ParenStarts(s) ==
    {i \in 1..Len(s) :
        /\ s[i] = "("
        /\ \E j \in (i + 2)..Len(s) :
              s[j] = ")" /\ \A k \in (i + 1)..(j - 1) : s[k] # ")"}

\* the first group of the leftmost match of /\(([^)]+)\)/, '' without a match
ParenType(s) ==
    IF ParenStarts(s) = {} THEN << >>
    ELSE LET i == CHOOSE a \in ParenStarts(s) : \A b \in ParenStarts(s) : a <= b
             j == CHOOSE a \in (i + 2)..Len(s) :
                      s[a] = ")" /\ \A k \in (i + 1)..(a - 1) : s[k] # ")"
         IN  SubSeq(s, i + 1, j - 1)

\* snippet of a search-page link: the parenthetical type, else the trimmed
\* text of the next sibling cut to 200 characters
SearchSnippet(link) ==
    IF ParenType(link.parent) # << >> THEN ParenType(link.parent)
    ELSE IF link.hasNext THEN Substring(Trim(link.next), 200)
    ELSE << >>

\* one link of the results section; results is the list so far
SearchLinkStep(results, link, baseUrl, limit) ==
    LET title == Trim(link.text)
        url == MakeAbsolute(link.href, baseUrl)
        snippet == SearchSnippet(link)
        cleaned == Trim(CollapseWhitespace(title))
    IN  IF Len(results) >= limit THEN results
        ELSE IF link.href = << >> \/ title = << >> THEN results
        ELSE IF ~IsDocSiteUrl(url) THEN results
        ELSE IF cleaned = << >> THEN results
        ELSE Append(results,
                 Entry(cleaned, url,
                       IF snippet = << >> THEN PlaceholderSnippet ELSE snippet,
                       ParenType(link.parent)))

\* the entries read off the rendered search page
ExtractSearchPage(page, baseUrl, limit) ==
    FoldLeft(LAMBDA results, link : SearchLinkStep(results, link, baseUrl, limit),
             << >>, page.links, 1)

(***************************************************************************)
(* The crawl fallback (fallbackSearch).                                    *)
(***************************************************************************)

\* IsMcpQuery looking for the markers in the query as typed
IsMcpQueryAsTyped(query) ==
    \/ Includes(query, <<"m","c","p">>)
    \/ Includes(query, <<"m","o","d","e","l"," ","c","o","n","t","e","x","t"," ","p","r","o","t","o","c","o","l">>)
    \/ Includes(query, <<"a","u","t","o","g","e","n","_","e","x","t">>)

\* the query is an MCP query when its lowercase form holds one of
\* 'mcp', 'model context protocol', 'autogen_ext'
IsMcpQuery(query) ==
    \/ Includes(ToLowerCase(query), <<"m","c","p">>)
    \/ Includes(ToLowerCase(query), <<"m","o","d","e","l"," ","c","o","n","t","e","x","t"," ","p","r","o","t","o","c","o","l">>)
    \/ Includes(ToLowerCase(query), <<"a","u","t","o","g","e","n","_","e","x","t">>)

\* 'https://microsoft.github.io/autogen', the base of the MCP page set and of
\* relative links on its pages
McpBaseUrl ==
    <<"h","t","t","p","s",":","/","/","m","i","c","r","o","s","o","f","t",".","g","i","t","h","u","b",".","i","o","/","a","u","t","o","g","e","n">>

\* the 13 pages crawled for an MCP query
McpPages ==
    <<
       \* /docs/ecosystem/integrations, 'MCP Integrations'
       [url |-> McpBaseUrl \o <<"/","d","o","c","s","/","e","c","o","s","y","s","t","e","m","/","i","n","t","e","g","r","a","t","i","o","n","s">>,
        type |-> <<"M","C","P"," ","I","n","t","e","g","r","a","t","i","o","n","s">>],
       \* /docs/reference/agentchat/contrib, 'Contrib Modules'
       [url |-> McpBaseUrl \o <<"/","d","o","c","s","/","r","e","f","e","r","e","n","c","e","/","a","g","e","n","t","c","h","a","t","/","c","o","n","t","r","i","b">>,
        type |-> <<"C","o","n","t","r","i","b"," ","M","o","d","u","l","e","s">>],
       \* /docs/ecosystem/community, 'Community'
       [url |-> McpBaseUrl \o <<"/","d","o","c","s","/","e","c","o","s","y","s","t","e","m","/","c","o","m","m","u","n","i","t","y">>,
        type |-> <<"C","o","m","m","u","n","i","t","y">>],
       \* /docs/tutorial/code-executors, 'Code Executors'
       [url |-> McpBaseUrl \o <<"/","d","o","c","s","/","t","u","t","o","r","i","a","l","/","c","o","d","e","-","e","x","e","c","u","t","o","r","s">>,
        type |-> <<"C","o","d","e"," ","E","x","e","c","u","t","o","r","s">>],
       \* /docs/tutorial/tool-use, 'Tool Use'
       [url |-> McpBaseUrl \o <<"/","d","o","c","s","/","t","u","t","o","r","i","a","l","/","t","o","o","l","-","u","s","e">>,
        type |-> <<"T","o","o","l"," ","U","s","e">>],
       \* /docs/ecosystem/ecosystem, 'Ecosystem'
       [url |-> McpBaseUrl \o <<"/","d","o","c","s","/","e","c","o","s","y","s","t","e","m","/","e","c","o","s","y","s","t","e","m">>,
        type |-> <<"E","c","o","s","y","s","t","e","m">>],
       \* /docs/Getting-Started, 'Getting Started'
       [url |-> McpBaseUrl \o <<"/","d","o","c","s","/","G","e","t","t","i","n","g","-","S","t","a","r","t","e","d">>,
        type |-> <<"G","e","t","t","i","n","g"," ","S","t","a","r","t","e","d">>],
       \* /docs/tutorial/introduction, 'Tutorial'
       [url |-> McpBaseUrl \o <<"/","d","o","c","s","/","t","u","t","o","r","i","a","l","/","i","n","t","r","o","d","u","c","t","i","o","n">>,
        type |-> <<"T","u","t","o","r","i","a","l">>],
       \* /docs/Use-Cases/agent_chat, 'Agent Chat'
       [url |-> McpBaseUrl \o <<"/","d","o","c","s","/","U","s","e","-","C","a","s","e","s","/","a","g","e","n","t","_","c","h","a","t">>,
        type |-> <<"A","g","e","n","t"," ","C","h","a","t">>],
       \* /docs/Installation, 'Installation'
       [url |-> McpBaseUrl \o <<"/","d","o","c","s","/","I","n","s","t","a","l","l","a","t","i","o","n">>,
        type |-> <<"I","n","s","t","a","l","l","a","t","i","o","n">>],
       \* /docs/FAQ, 'FAQ'
       [url |-> McpBaseUrl \o <<"/","d","o","c","s","/","F","A","Q">>,
        type |-> <<"F","A","Q">>],
       \* /docs/Migration-Guide, 'Migration'
       [url |-> McpBaseUrl \o <<"/","d","o","c","s","/","M","i","g","r","a","t","i","o","n","-","G","u","i","d","e">>,
        type |-> <<"M","i","g","r","a","t","i","o","n">>],
       \* /blog, 'Blog'
       [url |-> McpBaseUrl \o <<"/","b","l","o","g">>,
        type |-> <<"B","l","o","g">>]
    >>

\* the 7 pages crawled for any other query
StandardPages(baseUrl) ==
    <<
       \* /user-guide/index.html, 'User Guide'
       [url |-> baseUrl \o <<"/","u","s","e","r","-","g","u","i","d","e","/","i","n","d","e","x",".","h","t","m","l">>,
        type |-> <<"U","s","e","r"," ","G","u","i","d","e">>],
       \* /user-guide/core-user-guide/index.html, 'Core Guide'
       [url |-> baseUrl \o <<"/","u","s","e","r","-","g","u","i","d","e","/","c","o","r","e","-","u","s","e","r","-","g","u","i","d","e","/","i","n","d","e","x",".","h","t","m","l">>,
        type |-> <<"C","o","r","e"," ","G","u","i","d","e">>],
       \* /user-guide/agentchat-user-guide/index.html, 'AgentChat Guide'
       [url |-> baseUrl \o <<"/","u","s","e","r","-","g","u","i","d","e","/","a","g","e","n","t","c","h","a","t","-","u","s","e","r","-","g","u","i","d","e","/","i","n","d","e","x",".","h","t","m","l">>,
        type |-> <<"A","g","e","n","t","C","h","a","t"," ","G","u","i","d","e">>],
       \* /reference/index.html, 'API Reference'
       [url |-> baseUrl \o <<"/","r","e","f","e","r","e","n","c","e","/","i","n","d","e","x",".","h","t","m","l">>,
        type |-> <<"A","P","I"," ","R","e","f","e","r","e","n","c","e">>],
       \* /reference/agentchat/index.html, 'AgentChat API'
       [url |-> baseUrl \o <<"/","r","e","f","e","r","e","n","c","e","/","a","g","e","n","t","c","h","a","t","/","i","n","d","e","x",".","h","t","m","l">>,
        type |-> <<"A","g","e","n","t","C","h","a","t"," ","A","P","I">>],
       \* /reference/autogen_core/index.html, 'Core API'
       [url |-> baseUrl \o <<"/","r","e","f","e","r","e","n","c","e","/","a","u","t","o","g","e","n","_","c","o","r","e","/","i","n","d","e","x",".","h","t","m","l">>,
        type |-> <<"C","o","r","e"," ","A","P","I">>],
       \* /tutorials/index.html, 'Tutorials'
       [url |-> baseUrl \o <<"/","t","u","t","o","r","i","a","l","s","/","i","n","d","e","x",".","h","t","m","l">>,
        type |-> <<"T","u","t","o","r","i","a","l","s">>]
    >>

\* pagesToSearch with the version-independent pages searched for every query,
\* after the pages of the version
pagesToSearchMerged(query, version) ==
    IF IsMcpQuery(query) THEN McpPages
    ELSE StandardPages(getVersionUrl(version)) \o McpPages

pagesToSearch(query, version) ==
    IF IsMcpQuery(query) THEN McpPages ELSE StandardPages(getVersionUrl(version))

\* ['autogen_ext', 'tools', 'extensions', 'contrib', 'ecosystem']
mcpRelatedTerms ==
    << <<"a","u","t","o","g","e","n","_","e","x","t">>,
       <<"t","o","o","l","s">>,
       <<"e","x","t","e","n","s","i","o","n","s">>,
       <<"c","o","n","t","r","i","b">>,
       <<"e","c","o","s","y","s","t","e","m">> >>

\* page.url, with '#' and the id when the element has one
AnchorUrl(pageUrl, id) ==
    IF id # << >> THEN pageUrl \o <<"#">> \o id ELSE pageUrl

\* results.some(r => r.url === url && r.title === title)
IsDuplicatePair(results, url, title) ==
    \E k \in 1..Len(results) : results[k].url = url /\ results[k].title = title

\* results.some(r => r.url === url || r.title === title)
IsDuplicateEither(results, url, title) ==
    \E k \in 1..Len(results) : results[k].url = url \/ results[k].title = title

\* one heading of $('h1, h2, h3, h4, h5, h6').each
HeadingStep(results, el, page, queryLower, limit) ==
    LET headingText == Trim(el.text)
        nextContent == Trim(el.next)
        snippet == IF Substring(nextContent, 200) # << >>
                   THEN Substring(nextContent, 200)
                   ELSE page.type \o <<":"," ">> \o headingText
    IN  IF Len(results) >= limit \/ el.tag # "h" THEN results
        ELSE IF Includes(ToLowerCase(headingText), queryLower)
        THEN Append(results,
                 Entry(headingText, AnchorUrl(page.url, el.id), snippet, page.type))
        ELSE results

\* one element of $('p, div').each
BlockStep(results, el, page, pageTitle, queryLower, limit) ==
    LET text == Trim(el.text)
        title == IF el.hasPrev THEN Trim(el.prevText)
                 ELSE IF pageTitle # << >> THEN pageTitle ELSE DefaultPageTitle
        url == AnchorUrl(page.url, IF el.hasPrev THEN el.prevId ELSE << >>)
    IN  IF Len(results) >= limit \/ el.tag # "b" THEN results
        ELSE IF Includes(ToLowerCase(text), queryLower) /\ Len(text) > 50
                /\ ~IsDuplicatePair(results, url, title)
        THEN Append(results, Entry(title, url, Substring(text, 200), page.type))
        ELSE results

\* one element of $('h1, h2, h3, h4, h5, h6, p, div').each for a related term
RelatedStep(results, el, page, term, limit) ==
    LET text == Trim(el.text)
        found == IF el.tag = "h" THEN text
                 ELSE IF el.hasPrev THEN Trim(el.prevText) ELSE << >>
        title == IF found # << >> THEN found ELSE page.type \o <<":"," ">> \o term
        url == AnchorUrl(page.url, el.id)
    IN  IF Len(results) >= limit THEN results
        ELSE IF Includes(ToLowerCase(text), term) /\ Len(text) > 20
                /\ ~IsDuplicatePair(results, url, title)
        THEN Append(results, Entry(title, url, Substring(text, 200), page.type))
        ELSE results

\* one term of mcpRelatedTerms.forEach
RelatedTermScan(results, term, dom, page, limit) ==
    IF Len(results) >= limit THEN results
    ELSE IF Includes(ToLowerCase(dom.text), term)
    THEN FoldLeft(LAMBDA r, el : RelatedStep(r, el, page, term, limit),
                  results, dom.elems, 1)
    ELSE results

\* snippet of a crawled link: the parent's text, the siblings' text when that
\* is shorter than 50, cut to 200, else the placeholder
LinkSnippet(link) ==
    LET parentText == Trim(link.parent)
        context == IF Len(parentText) < 50 THEN Trim(link.siblings) ELSE parentText
    IN  IF Substring(context, 200) # << >> THEN Substring(context, 200)
        ELSE PlaceholderSnippet

\* LinkStep without the test of the limit before the push
LinkStepNoLimit(results, link, page, linkBase, queryLower, limit) ==
    LET title == Trim(link.text)
        url == MakeAbsolute(link.href, linkBase)
    IN  IF link.href = << >> \/ title = << >> \/ Len(title) < 3 THEN results
        ELSE IF ~IsDocSiteUrl(url) THEN results
        ELSE IF (\/ Includes(ToLowerCase(title), queryLower)
                 \/ Includes(ToLowerCase(url), queryLower))
                /\ ~IsDuplicateEither(results, url, title)
        THEN Append(results, Entry(title, url, LinkSnippet(link), page.type))
        ELSE results

\* one link of $('a[href]').each
LinkStep(results, link, page, linkBase, queryLower, limit) ==
    LET title == Trim(link.text)
        url == MakeAbsolute(link.href, linkBase)
    IN  IF Len(results) >= limit THEN results
        ELSE IF link.href = << >> \/ title = << >> \/ Len(title) < 3 THEN results
        ELSE IF ~IsDocSiteUrl(url) THEN results
        ELSE IF (\/ Includes(ToLowerCase(title), queryLower)
                 \/ Includes(ToLowerCase(url), queryLower))
                /\ ~IsDuplicateEither(results, url, title)
        THEN Append(results, Entry(title, url, LinkSnippet(link), page.type))
        ELSE results

\* the body of the page loop for a page fetched ok: headings and text blocks
\* when the page content holds the query, related terms for an MCP query, links
ScanPage(results, dom, page, query, limit, version) ==
    LET queryLower == ToLowerCase(query)
        isMcpQuery == IsMcpQuery(query)
        pageTitle == IF dom.title # << >> THEN dom.title ELSE dom.h1
        afterHeadings ==
            FoldLeft(LAMBDA r, el : HeadingStep(r, el, page, queryLower, limit),
                     results, dom.elems, 1)
        afterBlocks ==
            FoldLeft(LAMBDA r, el : BlockStep(r, el, page, pageTitle, queryLower, limit),
                     afterHeadings, dom.elems, 1)
        afterContent ==
            IF Includes(ToLowerCase(dom.content), queryLower)
            THEN afterBlocks ELSE results
        afterRelated ==
            IF isMcpQuery
            THEN FoldLeft(LAMBDA r, term : RelatedTermScan(r, term, dom, page, limit),
                          afterContent, mcpRelatedTerms, 1)
            ELSE afterContent
        linkBase == IF isMcpQuery THEN McpBaseUrl ELSE getVersionUrl(version)
    IN  FoldLeft(LAMBDA r, link : LinkStep(r, link, page, linkBase, queryLower, limit),
                 afterRelated, dom.links, 1)

\* results.filter((r, i, self) => i === self.findIndex(x => x.url === r.url))
RECURSIVE UniqueByUrl(_)
UniqueByUrl(results) ==
    IF results = << >> THEN << >>
    ELSE LET init == UniqueByUrl(SubSeq(results, 1, Len(results) - 1))
             last == results[Len(results)]
         IN  IF \E k \in 1..Len(init) : init[k].url = last.url
             THEN init ELSE Append(init, last)

(***************************************************************************)
(* Inputs of the model: queries, versions, and what the documentation      *)
(* site can answer to each kind of request.                                *)
(***************************************************************************)
\* 'agent', 'Chat agent', 'mcp' and the empty query
Queries ==
    { <<"a","g","e","n","t">>,
      <<"C","h","a","t"," ","a","g","e","n","t">>,
      <<"m","c","p">>,
      << >> }

\* 'stable' and 'dev'
Versions ==
    { <<"s","t","a","b","l","e">>,
      <<"d","e","v">> }

Limits == 0..MaxLimit

Doc(title, docname) == [title |-> title, docname |-> docname]

\* documents a search index may hold
DocPool ==
    { \* 'Agent Introduction' at 'python/agent-intro'
      Doc(<<"A","g","e","n","t"," ","I","n","t","r","o","d","u","c","t","i","o","n">>,
          <<"p","y","t","h","o","n","/","a","g","e","n","t","-","i","n","t","r","o">>),
      \* 'Chat Agent' at 'user-guide/chat'
      Doc(<<"C","h","a","t"," ","A","g","e","n","t">>,
          <<"u","s","e","r","-","g","u","i","d","e","/","c","h","a","t">>),
      \* 'Core' at 'components/agent'
      Doc(<<"C","o","r","e">>,
          <<"c","o","m","p","o","n","e","n","t","s","/","a","g","e","n","t">>),
      \* 'Install' at 'tutorials/install'
      Doc(<<"I","n","s","t","a","l","l">>,
          <<"t","u","t","o","r","i","a","l","s","/","i","n","s","t","a","l","l">>),
      \* 'MCP Tools' at 'ext/mcp'
      Doc(<<"M","C","P"," ","T","o","o","l","s">>,
          <<"e","x","t","/","m","c","p">>),
      \* a document with an empty title at 'api/agent'
      Doc(<< >>,
          <<"a","p","i","/","a","g","e","n","t">>) }

DocSeqs == UNION {[1..n -> DocPool] : n \in 0..MaxDocs}

\* an entry of one of the two arrays that has no partner in the other: 'Agent'
UnpairedItem ==
    <<"A","g","e","n","t">>

\* the parsed search index: titles and docnames of docs, with one more title
\* or one more docname when extra says so
SearchData(docs, extra) ==
    [hasTitles |-> TRUE, hasDocnames |-> TRUE,
     titles |-> [i \in 1..Len(docs) |-> docs[i].title]
                \o (IF extra = "title" THEN <<UnpairedItem>> ELSE << >>),
     docnames |-> [i \in 1..Len(docs) |-> docs[i].docname]
                  \o (IF extra = "docname" THEN <<UnpairedItem>> ELSE << >>)]

\* a parsed index without a titles array
NoTitlesData ==
    [hasTitles |-> FALSE, hasDocnames |-> TRUE, titles |-> << >>, docnames |-> << >>]

IndexTables ==
    {SearchData(docs, extra) : docs \in DocSeqs, extra \in {"none", "title", "docname"}}
    \cup {NoTitlesData}

\* searchindex.js as served: without the Search.setIndex(...) wrapper, with a
\* wrapper around text that is not JSON, or with a wrapper around a table
IndexBodies ==
    {[kind |-> "nowrap", data |-> NoTitlesData], [kind |-> "badjson", data |-> NoTitlesData]}
    \cup {[kind |-> "json", data |-> t] : t \in IndexTables}

Link(text, href, parent, hasNext, next) ==
    [text |-> text, href |-> href, parent |-> parent, hasNext |-> hasNext, next |-> next]

\* links the results section of a rendered search page may hold
SearchLinkPool ==
    { \* root-relative, with a parenthetical type
      Link(<<"A","g","e","n","t">>,
           <<"/","r","e","f","e","r","e","n","c","e","/","a","g","e","n","t",".","h","t","m","l">>,
           <<"A","g","e","n","t"," ","(","P","y","t","h","o","n"," ","c","l","a","s","s",","," ","i","n"," ","a","u","t","o","g","e","n","_","c","o","r","e",")">>,
           FALSE, << >>),
      \* relative, title with inner and outer whitespace, type from next sibling
      Link(<<" ","C","h","a","t"," "," "," ","a","g","e","n","t"," ">>,
           <<"u","s","e","r","-","g","u","i","d","e","/","c","h","a","t",".","h","t","m","l">>,
           <<" ","C","h","a","t"," "," "," ","a","g","e","n","t"," ">>,
           TRUE, <<" ","C","h","a","t"," ","a","g","e","n","t","s"," ","g","u","i","d","e"," ">>),
      \* absolute, inside the tree of version dev
      Link(<<"D","e","v"," ","a","g","e","n","t">>,
           <<"h","t","t","p","s",":","/","/","m","i","c","r","o","s","o","f","t",".","g","i","t","h","u","b",".","i","o","/","a","u","t","o","g","e","n","/","d","e","v","/","a","g","e","n","t",".","h","t","m","l">>,
           <<"D","e","v"," ","a","g","e","n","t">>,
           FALSE, << >>),
      \* absolute, on another host, the site text in its query string
      Link(<<"M","i","r","r","o","r">>,
           <<"h","t","t","p","s",":","/","/","m","i","r","r","o","r",".","e","x","a","m","p","l","e","/","?","u","=","m","i","c","r","o","s","o","f","t",".","g","i","t","h","u","b",".","i","o","/","a","u","t","o","g","e","n">>,
           <<"M","i","r","r","o","r">>,
           FALSE, << >>),
      \* absolute, on another host
      Link(<<"E","x","a","m","p","l","e">>,
           <<"h","t","t","p","s",":","/","/","e","x","a","m","p","l","e",".","c","o","m","/","a","g","e","n","t">>,
           <<"E","x","a","m","p","l","e">>,
           FALSE, << >>),
      \* a link without text
      Link(<<" ">>,
           <<"/","i","n","d","e","x",".","h","t","m","l">>,
           <<" ">>,
           FALSE, << >>) }

\* a link whose enclosing text has a parenthetical of 245 characters
LongTypeLink ==
    Link(<<"A","g","e","n","t">>,
         <<"/","r","e","f","e","r","e","n","c","e","/","a","g","e","n","t","s",".","h","t","m","l">>,
         <<"A","g","e","n","t"," ","(","P","y","t","h","o","n"," ","c","l","a","s","s",","," ","i","n"," ","a","u","t","o","g","e","n","_","c","o","r","e",","," ","r","e","-","e","x","p","o","r","t","e","d"," ","b","y"," ","a","u","t","o","g","e","n","_","a","g","e","n","t","c","h","a","t",".","a","g","e","n","t","s",","," ","a","u","t","o","g","e","n","_","a","g","e","n","t","c","h","a","t",".","b","a","s","e",","," ","a","u","t","o","g","e","n","_","a","g","e","n","t","c","h","a","t",".","t","e","a","m","s",","," ","a","u","t","o","g","e","n","_","e","x","t",".","a","g","e","n","t","s",".","o","p","e","n","a","i",","," ","a","u","t","o","g","e","n","_","e","x","t",".","a","g","e","n","t","s",".","w","e","b","_","s","u","r","f","e","r",","," ","a","u","t","o","g","e","n","_","e","x","t",".","a","g","e","n","t","s",".","f","i","l","e","_","s","u","r","f","e","r"," ","a","n","d"," ","a","u","t","o","g","e","n","_","e","x","t",".","a","g","e","n","t","s",".","v","i","d","e","o","_","s","u","r","f","e","r",")">>,
         FALSE, << >>)

\* a link followed by a sibling of 243 characters
LongNextLink ==
    Link(<<"A","g","e","n","t","s">>,
         <<"u","s","e","r","-","g","u","i","d","e","/","a","g","e","n","t","s",".","h","t","m","l">>,
         <<"A","g","e","n","t","s">>,
         TRUE, <<"A","n"," ","a","g","e","n","t"," ","i","s"," ","a"," ","s","o","f","t","w","a","r","e"," ","e","n","t","i","t","y"," ","t","h","a","t"," ","c","o","m","m","u","n","i","c","a","t","e","s"," ","v","i","a"," ","m","e","s","s","a","g","e","s",","," ","m","a","i","n","t","a","i","n","s"," ","i","t","s"," ","o","w","n"," ","s","t","a","t","e",","," ","a","n","d"," ","p","e","r","f","o","r","m","s"," ","a","c","t","i","o","n","s"," ","i","n"," ","r","e","s","p","o","n","s","e"," ","t","o"," ","r","e","c","e","i","v","e","d"," ","m","e","s","s","a","g","e","s"," ","o","r"," ","c","h","a","n","g","e","s"," ","i","n"," ","i","t","s"," ","s","t","a","t","e",";"," ","a","g","e","n","t","s"," ","c","a","n"," ","c","a","l","l"," ","t","o","o","l","s",","," ","r","u","n"," ","c","o","d","e",","," ","a","n","d"," ","h","a","n","d"," ","o","f","f"," ","w","o","r","k"," ","t","o"," ","o","t","h","e","r"," ","a","g","e","n","t","s"," ","i","n"," ","a"," ","t","e","a","m",".">>)

SearchPages ==
    {[links |-> ls] : ls \in UNION {[1..n -> SearchLinkPool] : n \in 0..MaxLinks}}

Elem(tag, text, id, next, hasPrev, prevText, prevId) ==
    [tag |-> tag, text |-> text, id |-> id, next |-> next,
     hasPrev |-> hasPrev, prevText |-> prevText, prevId |-> prevId]

PageLink(text, href, parent, siblings) ==
    [text |-> text, href |-> href, parent |-> parent, siblings |-> siblings]

\* a guide page about agents: heading, paragraph, links in the body
DomAgent ==
    [title |-> <<"A","g","e","n","t","s"," ","-"," ","A","u","t","o","G","e","n">>,
     h1 |-> <<"A","g","e","n","t","s">>,
     content |-> <<"A","g","e","n","t","s"," ","A","n"," ","a","g","e","n","t"," ","s","e","n","d","s"," ","a","n","d"," ","r","e","c","e","i","v","e","s"," ","m","e","s","s","a","g","e","s"," ","a","n","d"," ","c","a","n"," ","c","a","l","l"," ","t","o","o","l","s"," ","t","o"," ","a","c","t",".">>,
     text |-> <<"A","g","e","n","t","s"," ","-"," ","A","u","t","o","G","e","n"," ","A","g","e","n","t","s"," ","A","n"," ","a","g","e","n","t"," ","s","e","n","d","s"," ","a","n","d"," ","r","e","c","e","i","v","e","s"," ","m","e","s","s","a","g","e","s"," ","a","n","d"," ","c","a","n"," ","c","a","l","l"," ","t","o","o","l","s"," ","t","o"," ","a","c","t","."," ","A","g","e","n","t"," ","A","P","I">>,
     elems |-> <<
        Elem("h", <<"A","g","e","n","t","s">>,
             <<"a","g","e","n","t","s">>,
             <<"A","n"," ","a","g","e","n","t"," ","s","e","n","d","s"," ","a","n","d"," ","r","e","c","e","i","v","e","s"," ","m","e","s","s","a","g","e","s"," ","a","n","d"," ","c","a","n"," ","c","a","l","l"," ","t","o","o","l","s"," ","t","o"," ","a","c","t",".">>,
             FALSE, << >>, << >>),
        Elem("b", <<"A","n"," ","a","g","e","n","t"," ","s","e","n","d","s"," ","a","n","d"," ","r","e","c","e","i","v","e","s"," ","m","e","s","s","a","g","e","s"," ","a","n","d"," ","c","a","n"," ","c","a","l","l"," ","t","o","o","l","s"," ","t","o"," ","a","c","t",".">>,
             << >>, << >>,
             TRUE, <<"A","g","e","n","t","s">>,
             <<"a","g","e","n","t","s">>),
        Elem("h", <<"A","g","e","n","t"," ","t","e","a","m","s">>,
             << >>, << >>,
             TRUE, <<"A","g","e","n","t","s">>,
             <<"a","g","e","n","t","s">>) >>,
     links |-> <<
        PageLink(<<"A","g","e","n","t"," ","A","P","I">>,
                 <<"/","r","e","f","e","r","e","n","c","e","/","a","g","e","n","t",".","h","t","m","l">>,
                 <<"A","g","e","n","t"," ","A","P","I">>,
                 <<"S","e","e"," ","a","l","s","o">>) >>]

\* a page whose content does not mention agents or MCP; its navigation links
\* point to another version and to another host
DomNav ==
    [title |-> << >>,
     h1 |-> <<"W","e","l","c","o","m","e">>,
     content |-> <<"W","e","l","c","o","m","e"," ","t","o"," ","t","h","e"," ","d","o","c","u","m","e","n","t","a","t","i","o","n",".">>,
     text |-> <<"W","e","l","c","o","m","e"," ","t","o"," ","t","h","e"," ","d","o","c","u","m","e","n","t","a","t","i","o","n","."," ","A","g","e","n","t"," ","(","d","e","v",")"," ","A","g","e","n","t"," ","m","i","r","r","o","r"," ","M","C","P"," ","m","i","r","r","o","r">>,
     elems |-> <<
        Elem("h", <<"W","e","l","c","o","m","e">>,
             << >>, << >>, FALSE, << >>, << >>),
        \* a heading element without text
        Elem("h", << >>,
             <<"t","o","p">>, << >>, TRUE, <<"W","e","l","c","o","m","e">>,
             << >>) >>,
     links |-> <<
        PageLink(<<"A","g","e","n","t"," ","(","d","e","v",")">>,
                 <<"h","t","t","p","s",":","/","/","m","i","c","r","o","s","o","f","t",".","g","i","t","h","u","b",".","i","o","/","a","u","t","o","g","e","n","/","d","e","v","/","a","g","e","n","t",".","h","t","m","l">>,
                 <<"A","g","e","n","t"," ","(","d","e","v",")">>,
                 << >>),
        PageLink(<<"A","g","e","n","t"," ","m","i","r","r","o","r">>,
                 <<"h","t","t","p","s",":","/","/","m","i","r","r","o","r",".","e","x","a","m","p","l","e","/","m","i","c","r","o","s","o","f","t",".","g","i","t","h","u","b",".","i","o","/","a","u","t","o","g","e","n","/","a","g","e","n","t">>,
                 <<"A","g","e","n","t"," ","m","i","r","r","o","r">>,
                 << >>),
        PageLink(<<"M","C","P"," ","m","i","r","r","o","r">>,
                 <<"h","t","t","p","s",":","/","/","m","i","r","r","o","r",".","e","x","a","m","p","l","e","/","m","i","c","r","o","s","o","f","t",".","g","i","t","h","u","b",".","i","o","/","a","u","t","o","g","e","n","/","m","c","p">>,
                 <<"M","C","P"," ","m","i","r","r","o","r">>,
                 << >>) >>]

\* a page about MCP tools and extensions
DomMcp ==
    [title |-> <<"I","n","t","e","g","r","a","t","i","o","n","s">>,
     h1 |-> <<"I","n","t","e","g","r","a","t","i","o","n","s">>,
     content |-> <<"M","C","P"," ","s","e","r","v","e","r","s"," ","T","h","e"," ","m","c","p"," ","w","o","r","k","b","e","n","c","h"," ","o","f"," ","a","u","t","o","g","e","n","_","e","x","t"," ","e","x","p","o","s","e","s"," ","t","o","o","l","s"," ","o","f"," ","a","n"," ","M","C","P"," ","s","e","r","v","e","r",".">>,
     text |-> <<"I","n","t","e","g","r","a","t","i","o","n","s"," ","M","C","P"," ","s","e","r","v","e","r","s"," ","T","h","e"," ","m","c","p"," ","w","o","r","k","b","e","n","c","h"," ","o","f"," ","a","u","t","o","g","e","n","_","e","x","t"," ","e","x","p","o","s","e","s"," ","t","o","o","l","s"," ","o","f"," ","a","n"," ","M","C","P"," ","s","e","r","v","e","r","."," ","E","c","o","s","y","s","t","e","m">>,
     elems |-> <<
        Elem("h", <<"M","C","P"," ","s","e","r","v","e","r","s">>,
             <<"m","c","p">>,
             <<"T","h","e"," ","m","c","p"," ","w","o","r","k","b","e","n","c","h"," ","o","f"," ","a","u","t","o","g","e","n","_","e","x","t"," ","e","x","p","o","s","e","s"," ","t","o","o","l","s"," ","o","f"," ","a","n"," ","M","C","P"," ","s","e","r","v","e","r",".">>,
             FALSE, << >>, << >>),
        Elem("b", <<"T","h","e"," ","m","c","p"," ","w","o","r","k","b","e","n","c","h"," ","o","f"," ","a","u","t","o","g","e","n","_","e","x","t"," ","e","x","p","o","s","e","s"," ","t","o","o","l","s"," ","o","f"," ","a","n"," ","M","C","P"," ","s","e","r","v","e","r",".">>,
             <<"i","n","t","r","o">>, << >>,
             TRUE, <<"M","C","P"," ","s","e","r","v","e","r","s">>,
             <<"m","c","p">>) >>,
     links |-> <<
        PageLink(<<"E","c","o","s","y","s","t","e","m">>,
                 <<"d","o","c","s","/","e","c","o","s","y","s","t","e","m","/","m","c","p">>,
                 <<"E","c","o","s","y","s","t","e","m">>,
                 << >>) >>]

\* a page of questions: two headings without id, nothing after them
DomFaq ==
    [title |-> <<"F","A","Q">>,
     h1 |-> <<"F","A","Q">>,
     content |-> <<"F","A","Q"," ","W","h","a","t"," ","i","s"," ","a","n"," ","a","g","e","n","t","?"," ","W","h","a","t"," ","i","s"," ","M","C","P","?">>,
     text |-> <<"F","A","Q"," ","W","h","a","t"," ","i","s"," ","a","n"," ","a","g","e","n","t","?"," ","W","h","a","t"," ","i","s"," ","M","C","P","?">>,
     elems |-> <<
        Elem("h", <<"W","h","a","t"," ","i","s"," ","a","n"," ","a","g","e","n","t","?">>,
             << >>, << >>, FALSE, << >>, << >>),
        Elem("h", <<"W","h","a","t"," ","i","s"," ","M","C","P","?">>,
             << >>, << >>,
             TRUE, <<"W","h","a","t"," ","i","s"," ","a","n"," ","a","g","e","n","t","?">>,
             << >>) >>,
     links |-> << >>]

\* a reference page: a heading followed by a paragraph of 243 characters, and
\* a heading of 216 characters followed by nothing
DomLong ==
    [title |-> <<"R","e","f","e","r","e","n","c","e">>,
     h1 |-> <<"A","g","e","n","t"," ","r","e","f","e","r","e","n","c","e">>,
     content |-> <<"A","g","e","n","t"," ","r","e","f","e","r","e","n","c","e"," ","A","n"," ","a","g","e","n","t"," ","i","s"," ","a"," ","s","o","f","t","w","a","r","e"," ","e","n","t","i","t","y"," ","t","h","a","t"," ","c","o","m","m","u","n","i","c","a","t","e","s"," ","v","i","a"," ","m","e","s","s","a","g","e","s",","," ","m","a","i","n","t","a","i","n","s"," ","i","t","s"," ","o","w","n"," ","s","t","a","t","e",","," ","a","n","d"," ","p","e","r","f","o","r","m","s"," ","a","c","t","i","o","n","s"," ","i","n"," ","r","e","s","p","o","n","s","e"," ","t","o"," ","r","e","c","e","i","v","e","d"," ","m","e","s","s","a","g","e","s"," ","o","r"," ","c","h","a","n","g","e","s"," ","i","n"," ","i","t","s"," ","s","t","a","t","e",";"," ","a","g","e","n","t","s"," ","c","a","n"," ","c","a","l","l"," ","t","o","o","l","s",","," ","r","u","n"," ","c","o","d","e",","," ","a","n","d"," ","h","a","n","d"," ","o","f","f"," ","w","o","r","k"," ","t","o"," ","o","t","h","e","r"," ","a","g","e","n","t","s"," ","i","n"," ","a"," ","t","e","a","m","."," ","A","g","e","n","t"," ","r","u","n","t","i","m","e"," ","e","n","v","i","r","o","n","m","e","n","t","s",","," ","m","e","s","s","a","g","e"," ","r","o","u","t","i","n","g"," ","b","e","t","w","e","e","n"," ","a","g","e","n","t","s",","," ","s","u","b","s","c","r","i","p","t","i","o","n"," ","a","n","d"," ","t","o","p","i","c"," ","m","a","n","a","g","e","m","e","n","t",","," ","l","i","f","e","c","y","c","l","e"," ","o","f"," ","a","g","e","n","t","s",","," ","s","e","r","i","a","l","i","z","a","t","i","o","n"," ","o","f"," ","m","e","s","s","a","g","e","s",","," ","d","i","s","t","r","i","b","u","t","e","d"," ","w","o","r","k","e","r","s",","," ","t","e","l","e","m","e","t","r","y"," ","a","n","d"," ","l","o","g","g","i","n","g",","," ","a","n","d"," ","h","o","w"," ","t","o"," ","c","o","n","f","i","g","u","r","e"," ","t","h","e","m"," ","a","l","l">>,
     text |-> <<"R","e","f","e","r","e","n","c","e"," ","A","g","e","n","t"," ","r","e","f","e","r","e","n","c","e"," ","A","n"," ","a","g","e","n","t"," ","i","s"," ","a"," ","s","o","f","t","w","a","r","e"," ","e","n","t","i","t","y"," ","t","h","a","t"," ","c","o","m","m","u","n","i","c","a","t","e","s"," ","v","i","a"," ","m","e","s","s","a","g","e","s",","," ","m","a","i","n","t","a","i","n","s"," ","i","t","s"," ","o","w","n"," ","s","t","a","t","e",","," ","a","n","d"," ","p","e","r","f","o","r","m","s"," ","a","c","t","i","o","n","s"," ","i","n"," ","r","e","s","p","o","n","s","e"," ","t","o"," ","r","e","c","e","i","v","e","d"," ","m","e","s","s","a","g","e","s"," ","o","r"," ","c","h","a","n","g","e","s"," ","i","n"," ","i","t","s"," ","s","t","a","t","e",";"," ","a","g","e","n","t","s"," ","c","a","n"," ","c","a","l","l"," ","t","o","o","l","s",","," ","r","u","n"," ","c","o","d","e",","," ","a","n","d"," ","h","a","n","d"," ","o","f","f"," ","w","o","r","k"," ","t","o"," ","o","t","h","e","r"," ","a","g","e","n","t","s"," ","i","n"," ","a"," ","t","e","a","m","."," ","A","g","e","n","t"," ","r","u","n","t","i","m","e"," ","e","n","v","i","r","o","n","m","e","n","t","s",","," ","m","e","s","s","a","g","e"," ","r","o","u","t","i","n","g"," ","b","e","t","w","e","e","n"," ","a","g","e","n","t","s",","," ","s","u","b","s","c","r","i","p","t","i","o","n"," ","a","n","d"," ","t","o","p","i","c"," ","m","a","n","a","g","e","m","e","n","t",","," ","l","i","f","e","c","y","c","l","e"," ","o","f"," ","a","g","e","n","t","s",","," ","s","e","r","i","a","l","i","z","a","t","i","o","n"," ","o","f"," ","m","e","s","s","a","g","e","s",","," ","d","i","s","t","r","i","b","u","t","e","d"," ","w","o","r","k","e","r","s",","," ","t","e","l","e","m","e","t","r","y"," ","a","n","d"," ","l","o","g","g","i","n","g",","," ","a","n","d"," ","h","o","w"," ","t","o"," ","c","o","n","f","i","g","u","r","e"," ","t","h","e","m"," ","a","l","l">>,
     elems |-> <<
        Elem("h", <<"A","g","e","n","t"," ","r","e","f","e","r","e","n","c","e">>,
             <<"r","e","f">>,
             <<"A","n"," ","a","g","e","n","t"," ","i","s"," ","a"," ","s","o","f","t","w","a","r","e"," ","e","n","t","i","t","y"," ","t","h","a","t"," ","c","o","m","m","u","n","i","c","a","t","e","s"," ","v","i","a"," ","m","e","s","s","a","g","e","s",","," ","m","a","i","n","t","a","i","n","s"," ","i","t","s"," ","o","w","n"," ","s","t","a","t","e",","," ","a","n","d"," ","p","e","r","f","o","r","m","s"," ","a","c","t","i","o","n","s"," ","i","n"," ","r","e","s","p","o","n","s","e"," ","t","o"," ","r","e","c","e","i","v","e","d"," ","m","e","s","s","a","g","e","s"," ","o","r"," ","c","h","a","n","g","e","s"," ","i","n"," ","i","t","s"," ","s","t","a","t","e",";"," ","a","g","e","n","t","s"," ","c","a","n"," ","c","a","l","l"," ","t","o","o","l","s",","," ","r","u","n"," ","c","o","d","e",","," ","a","n","d"," ","h","a","n","d"," ","o","f","f"," ","w","o","r","k"," ","t","o"," ","o","t","h","e","r"," ","a","g","e","n","t","s"," ","i","n"," ","a"," ","t","e","a","m",".">>,
             FALSE, << >>, << >>),
        Elem("b", <<"A","n"," ","a","g","e","n","t"," ","i","s"," ","a"," ","s","o","f","t","w","a","r","e"," ","e","n","t","i","t","y"," ","t","h","a","t"," ","c","o","m","m","u","n","i","c","a","t","e","s"," ","v","i","a"," ","m","e","s","s","a","g","e","s",","," ","m","a","i","n","t","a","i","n","s"," ","i","t","s"," ","o","w","n"," ","s","t","a","t","e",","," ","a","n","d"," ","p","e","r","f","o","r","m","s"," ","a","c","t","i","o","n","s"," ","i","n"," ","r","e","s","p","o","n","s","e"," ","t","o"," ","r","e","c","e","i","v","e","d"," ","m","e","s","s","a","g","e","s"," ","o","r"," ","c","h","a","n","g","e","s"," ","i","n"," ","i","t","s"," ","s","t","a","t","e",";"," ","a","g","e","n","t","s"," ","c","a","n"," ","c","a","l","l"," ","t","o","o","l","s",","," ","r","u","n"," ","c","o","d","e",","," ","a","n","d"," ","h","a","n","d"," ","o","f","f"," ","w","o","r","k"," ","t","o"," ","o","t","h","e","r"," ","a","g","e","n","t","s"," ","i","n"," ","a"," ","t","e","a","m",".">>,
             << >>, << >>,
             TRUE, <<"A","g","e","n","t"," ","r","e","f","e","r","e","n","c","e">>,
             <<"r","e","f">>),
        Elem("h", <<"A","g","e","n","t"," ","r","u","n","t","i","m","e"," ","e","n","v","i","r","o","n","m","e","n","t","s",","," ","m","e","s","s","a","g","e"," ","r","o","u","t","i","n","g"," ","b","e","t","w","e","e","n"," ","a","g","e","n","t","s",","," ","s","u","b","s","c","r","i","p","t","i","o","n"," ","a","n","d"," ","t","o","p","i","c"," ","m","a","n","a","g","e","m","e","n","t",","," ","l","i","f","e","c","y","c","l","e"," ","o","f"," ","a","g","e","n","t","s",","," ","s","e","r","i","a","l","i","z","a","t","i","o","n"," ","o","f"," ","m","e","s","s","a","g","e","s",","," ","d","i","s","t","r","i","b","u","t","e","d"," ","w","o","r","k","e","r","s",","," ","t","e","l","e","m","e","t","r","y"," ","a","n","d"," ","l","o","g","g","i","n","g",","," ","a","n","d"," ","h","o","w"," ","t","o"," ","c","o","n","f","i","g","u","r","e"," ","t","h","e","m"," ","a","l","l">>,
             << >>, << >>,
             TRUE, <<"A","g","e","n","t"," ","r","e","f","e","r","e","n","c","e">>,
             <<"r","e","f">>) >>,
     links |-> << >>]

\* a page without headings, text or links
DomEmpty ==
    [title |-> << >>, h1 |-> << >>, content |-> << >>, text |-> << >>,
     elems |-> << >>, links |-> << >>]

PageDoms == {DomAgent, DomNav, DomMcp, DomFaq, DomEmpty}

\* what a fetch can do: raise (network failure), answer with a status that is
\* not ok, or answer ok with a body
Failed(body) == [status |-> "fail", body |-> body]
NotOk(body) == [status |-> "notok", body |-> body]
Ok(body) == [status |-> "ok", body |-> body]

\* an answer that is not ok has a body too: an error page, or the resource
IndexOutcomes ==
    {Failed([kind |-> "nowrap", data |-> NoTitlesData]),
     NotOk([kind |-> "nowrap", data |-> NoTitlesData]),
     NotOk([kind |-> "json",
            data |-> SearchData(
                << Doc(<<"A","g","e","n","t"," ","I","n","t","r","o","d","u","c","t","i","o","n">>,
                       <<"p","y","t","h","o","n","/","a","g","e","n","t","-","i","n","t","r","o">>),
                   Doc(<<"M","C","P"," ","T","o","o","l","s">>,
                       <<"e","x","t","/","m","c","p">>) >>, "none")])}
    \cup {Ok(b) : b \in IndexBodies}

SearchOutcomes ==
    {Failed([links |-> << >>]),
     NotOk([links |-> << >>]),
     NotOk([links |-> << Link(<<"A","g","e","n","t">>,
                              <<"/","r","e","f","e","r","e","n","c","e","/","a","g","e","n","t",".","h","t","m","l">>,
                              <<"A","g","e","n","t"," ","(","P","y","t","h","o","n"," ","c","l","a","s","s",","," ","i","n"," ","a","u","t","o","g","e","n","_","c","o","r","e",")">>,
                              FALSE, << >>) >>])}
    \cup {Ok(b) : b \in SearchPages}

PageOutcomes ==
    {Failed(DomEmpty), NotOk(DomEmpty), NotOk(DomAgent), NotOk(DomMcp)}
    \cup {Ok(d) : d \in PageDoms}

(***************************************************************************)
(* State.                                                                  *)
(*   proc[p]  the tool call p of the server: where it stands, its          *)
(*            arguments, the locals of searchAutoGenDocs and               *)
(*            fallbackSearch, the requests it has issued so far, what its  *)
(*            strategies yielded, whether one of its catch clauses ran,    *)
(*            how many of its requests were answered and how the last one  *)
(*            was                                                          *)
(*   site     the documentation site: free to answer every request in any  *)
(*            way, or fixed to one answer per resource                     *)
(*            and, with it, the callers: the queries they send, whether    *)
(*            they overlap their calls                                     *)
(*   hist     against a fixed site, the arguments and outputs of the       *)
(*            resolutions that have completed                              *)
(***************************************************************************)
VARIABLES proc, site, hist

vars == <<proc, site, hist>>

Procs == {1, 2}

\* a tool call that has not been made
IdleProc(resp) ==
    [pc |-> "idle", query |-> << >>, limit |-> 0, version |-> << >>,
     results |-> << >>, pageIdx |-> 0, ret |-> << >>, fetched |-> << >>,
     idxYield |-> "none", searchYield |-> "none", fellBack |-> FALSE,
     caught |-> FALSE, answered |-> 0, last |-> "none", resp |-> resp]

searchIndexUrl(baseUrl) == baseUrl \o <<"/","s","e","a","r","c","h","i","n","d","e","x",".","j","s">>

searchUrl(baseUrl, query) ==
    baseUrl \o <<"/","s","e","a","r","c","h",".","h","t","m","l","?","q","=">> \o EncodeURIComponent(query)

\* return value handed to the caller
Return(s, value) == [s EXCEPT !.pc = "returned", !.ret = value]

\* an error that leaves searchAutoGenDocs
Throw(s) == [s EXCEPT !.pc = "threw"]

\* await fetch(url): the request is issued and the call is suspended
Fetch(s, url, pc) == [s EXCEPT !.pc = pc, !.fetched = Append(@, url)]

\* the awaited fetch settles with outcome o and the call resumes
Settle(s, o) ==
    [s EXCEPT !.answered = @ + 1, !.last = o.status]

\* CrawlLoop with the final filter keeping a set of seen URLs that outlives
\* the call, so that a URL returned before is dropped
CrawlLoopSeen(s) ==
    LET pages == pagesToSearch(s.query, s.version)
        seen == UNION {{hist[i].ret[k].url : k \in 1..Len(hist[i].ret)} : i \in 1..Len(hist)}
    IN  IF s.pageIdx > Len(pages) \/ Len(s.results) >= s.limit
        THEN Return(s, Slice(SelectSeq(UniqueByUrl(s.results), LAMBDA e : e.url \notin seen),
                             s.limit))
        ELSE Fetch(s, pages[s.pageIdx].url, "awaitPage")

\* CrawlLoop requesting the page and the one after it at once
CrawlLoopParallel(s) ==
    LET pages == pagesToSearch(s.query, s.version)
    IN  IF s.pageIdx > Len(pages) \/ Len(s.results) >= s.limit
        THEN Return(s, Slice(UniqueByUrl(s.results), s.limit))
        ELSE IF s.pageIdx < Len(pages) /\ Len(s.fetched) = s.answered
        THEN Fetch(Fetch(s, pages[s.pageIdx].url, "awaitPage"),
                   pages[s.pageIdx + 1].url, "awaitPage")
        ELSE Fetch(s, pages[s.pageIdx].url, "awaitPage")

\* the head of the page loop: stop at the limit or after the last page and
\* return the list without repeated URLs cut to the limit, else request the page
CrawlLoop(s) ==
    LET pages == pagesToSearch(s.query, s.version)
    IN  IF s.pageIdx > Len(pages) \/ Len(s.results) >= s.limit
        THEN Return(s, Slice(UniqueByUrl(s.results), s.limit))
        ELSE Fetch(s, pages[s.pageIdx].url, "awaitPage")

\* fallbackSearch is entered with an empty results list
fallbackSearch(s) ==
    CrawlLoop([s EXCEPT !.results = << >>, !.pageIdx = 1, !.fellBack = TRUE])

\* catch of searchAutoGenDocs: any error of the first two strategies
CatchSearchError(s) == fallbackSearch([s EXCEPT !.caught = TRUE])

\* the request for the rendered search page
RequestSearchPage(s) ==
    Fetch(s, searchUrl(getVersionUrl(s.version), s.query), "awaitSearch")

\* searchAutoGenDocs up to its first await
StartSearch(s, query, limit, version) ==
    Fetch([s EXCEPT !.query = query, !.limit = limit, !.version = version,
                    !.resp = "pending"],
          searchIndexUrl(getVersionUrl(version)), "awaitIndex")

\* OnIndexResponse asking the index search for one entry more than the limit
OnIndexResponseOffByOne(s, o) ==
    LET indexResults ==
            performIndexSearch(o.body.data, s.query, getVersionUrl(s.version), s.limit + 1)
    IN  IF o.status = "fail"
        THEN CatchSearchError([s EXCEPT !.idxYield = "zero"])
        ELSE IF o.status = "ok" /\ o.body.kind = "json" /\ Len(indexResults) > 0
        THEN Return([s EXCEPT !.idxYield = "some"], indexResults)
        ELSE RequestSearchPage([s EXCEPT !.idxYield = "zero"])

\* OnIndexResponse without the return of the index results
OnIndexResponseNoReturn(s, o) ==
    LET indexResults ==
            performIndexSearch(o.body.data, s.query, getVersionUrl(s.version), s.limit)
    IN  IF o.status = "fail"
        THEN CatchSearchError([s EXCEPT !.idxYield = "zero"])
        ELSE IF o.status = "ok" /\ o.body.kind = "json" /\ Len(indexResults) > 0
        THEN RequestSearchPage([s EXCEPT !.idxYield = "some"])
        ELSE RequestSearchPage([s EXCEPT !.idxYield = "zero"])

\* OnIndexResponse with JSON.parse outside the inner try: text that is not
\* JSON raises to the catch of searchAutoGenDocs
OnIndexResponseParseThrows(s, o) ==
    LET indexResults ==
            performIndexSearch(o.body.data, s.query, getVersionUrl(s.version), s.limit)
    IN  IF o.status = "fail" \/ (o.status = "ok" /\ o.body.kind = "badjson")
        THEN CatchSearchError([s EXCEPT !.idxYield = "zero"])
        ELSE IF o.status = "ok" /\ o.body.kind = "json" /\ Len(indexResults) > 0
        THEN Return([s EXCEPT !.idxYield = "some"], indexResults)
        ELSE RequestSearchPage([s EXCEPT !.idxYield = "zero"])

\* searchAutoGenDocs from the answer to searchindex.js to its next await
OnIndexResponse(s, o) ==
    LET indexResults ==
            performIndexSearch(o.body.data, s.query, getVersionUrl(s.version), s.limit)
    IN  IF o.status = "fail"
        THEN CatchSearchError([s EXCEPT !.idxYield = "zero"])
        ELSE IF o.status = "ok" /\ o.body.kind = "json" /\ Len(indexResults) > 0
        THEN Return([s EXCEPT !.idxYield = "some"], indexResults)
        ELSE RequestSearchPage([s EXCEPT !.idxYield = "zero"])

\* OnSearchResponse returning the search-page list even when it is empty
OnSearchResponseNoFallback(s, o) ==
    LET results == ExtractSearchPage(o.body, getVersionUrl(s.version), s.limit)
    IN  IF o.status = "fail"
        THEN CatchSearchError([s EXCEPT !.searchYield = "zero"])
        ELSE IF o.status = "ok"
        THEN Return([s EXCEPT !.searchYield = IF Len(results) > 0 THEN "some" ELSE "zero"],
                    Slice(results, s.limit))
        ELSE fallbackSearch([s EXCEPT !.searchYield = "zero"])

\* searchAutoGenDocs from the answer to search.html to its next await
OnSearchResponse(s, o) ==
    LET results == ExtractSearchPage(o.body, getVersionUrl(s.version), s.limit)
    IN  IF o.status = "fail"
        THEN CatchSearchError([s EXCEPT !.searchYield = "zero"])
        ELSE IF o.status = "ok" /\ Len(results) > 0
        THEN Return([s EXCEPT !.searchYield = "some"], Slice(results, s.limit))
        ELSE fallbackSearch([s EXCEPT !.searchYield = "zero"])

\* NextPage starting over at the first page when the last page is done and
\* nothing was found
NextPageWrap(s) ==
    IF /\ s.pageIdx = Len(pagesToSearch(s.query, s.version))
       /\ s.results = << >>
       /\ s.limit > 0
    THEN CrawlLoop([s EXCEPT !.pageIdx = 1])
    ELSE CrawlLoop([s EXCEPT !.pageIdx = @ + 1])

\* the next iteration of the page loop
NextPage(s) == CrawlLoop([s EXCEPT !.pageIdx = @ + 1])

\* an error of the page loop body that no catch clause handles
CatchPageErrorRethrow(s) == Throw(s)

\* CatchPageError requesting the page that failed once more
CatchPageErrorRetry(s) == CrawlLoop([s EXCEPT !.caught = TRUE])

\* catch of the page loop body: the page is logged and skipped
CatchPageError(s) == NextPage([s EXCEPT !.caught = TRUE])

\* OnPageResponse without the test of response.ok: the body of an answer
\* that is not ok is scanned like any other
OnPageResponseNoOkCheck(s, o) ==
    LET page == pagesToSearch(s.query, s.version)[s.pageIdx]
    IN  IF o.status = "fail" THEN CatchPageError(s)
        ELSE NextPage([s EXCEPT !.results =
                 ScanPage(@, o.body, page, s.query, s.limit, s.version)])

\* fallbackSearch from the answer to a page request to its next await
OnPageResponse(s, o) ==
    LET page == pagesToSearch(s.query, s.version)[s.pageIdx]
    IN  IF o.status = "fail" THEN CatchPageError(s)
        ELSE IF o.status = "notok" THEN NextPage(s)
        ELSE NextPage([s EXCEPT !.results =
                 ScanPage(@, o.body, page, s.query, s.limit, s.version)])

\* the text content of the tool response
ToolResponse(s) ==
    IF s.pc = "threw" THEN "error"
    ELSE IF Len(s.ret) = 0 THEN "no results" ELSE "found"

(***************************************************************************)
(* The site.                                                               *)
(***************************************************************************)
FreeSite ==
    [fixed |-> FALSE, few |-> FALSE, calls |-> 1, queries |-> Queries, overlap |-> FALSE,
     index |-> NotOk([kind |-> "nowrap", data |-> NoTitlesData]),
     search |-> NotOk([links |-> << >>]),
     first |-> NotOk(DomEmpty), rest |-> NotOk(DomEmpty),
     docs |-> NotOk(DomEmpty), docsRest |-> NotOk(DomEmpty)]

\* the fixed sites: one answer for searchindex.js, one for search.html, one for
\* the first curated page of the version tree and one for every other, one
\* for the first curated page under the version-independent base and one for
\* every other
FixedSites ==
    [fixed : {TRUE}, few : {FALSE}, calls : {MaxCalls}, queries : {Queries}, overlap : {FALSE},
     index : {Failed([kind |-> "nowrap", data |-> NoTitlesData]),
              NotOk([kind |-> "nowrap", data |-> NoTitlesData]),
              Ok([kind |-> "badjson", data |-> NoTitlesData]),
              Ok([kind |-> "json",
                  data |-> SearchData(
                      << Doc(<<"C","o","r","e">>,
                             <<"c","o","m","p","o","n","e","n","t","s","/","a","g","e","n","t">>),
                         Doc(<<"A","g","e","n","t"," ","I","n","t","r","o","d","u","c","t","i","o","n">>,
                             <<"p","y","t","h","o","n","/","a","g","e","n","t","-","i","n","t","r","o">>) >>, "none")])},
     search : {Failed([links |-> << >>]),
               Ok([links |-> << >>]),
               Ok([links |-> << Link(<<"A","g","e","n","t">>,
                                     <<"/","r","e","f","e","r","e","n","c","e","/","a","g","e","n","t",".","h","t","m","l">>,
                                     <<"A","g","e","n","t"," ","(","P","y","t","h","o","n"," ","c","l","a","s","s",","," ","i","n"," ","a","u","t","o","g","e","n","_","c","o","r","e",")">>,
                                     FALSE, << >>) >>])},
     first : {Failed(DomEmpty), NotOk(DomEmpty), Ok(DomAgent), Ok(DomFaq)},
     rest : {NotOk(DomEmpty), Ok(DomAgent), Ok(DomNav)},
     docs : {Ok(DomMcp)},
     docsRest : {NotOk(DomEmpty)}]

\* the fixed sites that serve a search index with a table and nothing else
IndexSites ==
    [fixed : {TRUE}, few : {FALSE}, calls : {1}, queries : {Queries}, overlap : {FALSE},
     index : {Ok([kind |-> "json", data |-> t]) : t \in IndexTables},
     search : {NotOk([links |-> << >>])},
     first : {NotOk(DomEmpty)}, rest : {Failed(DomEmpty)},
     docs : {NotOk(DomEmpty)}, docsRest : {Failed(DomEmpty)}]

\* the fixed sites whose resources may be down: each class of resource fails
\* at network level, answers with a status that is not ok, or answers ok
DownSites ==
    [fixed : {TRUE}, few : {FALSE}, calls : {1}, queries : {Queries}, overlap : {FALSE},
     index : {Failed([kind |-> "nowrap", data |-> NoTitlesData]),
              NotOk([kind |-> "nowrap", data |-> NoTitlesData]),
              Ok([kind |-> "nowrap", data |-> NoTitlesData]),
              Ok([kind |-> "badjson", data |-> NoTitlesData])},
     search : {Failed([links |-> << >>]),
               NotOk([links |-> << >>]),
               Ok([links |-> << >>])},
     first : {Failed(DomEmpty), NotOk(DomAgent), Ok(DomAgent)},
     rest : {Failed(DomEmpty), NotOk(DomAgent)},
     docs : {Failed(DomEmpty), NotOk(DomMcp), Ok(DomMcp)},
     docsRest : {Failed(DomEmpty), NotOk(DomMcp)}]

\* the fixed sites that serve long texts
LongSites ==
    [fixed : {TRUE}, few : {FALSE}, calls : {1}, queries : {Queries}, overlap : {FALSE},
     index : {NotOk([kind |-> "nowrap", data |-> NoTitlesData]),
              Ok([kind |-> "json",
                  data |-> SearchData(
                      << Doc(<<"A","g","e","n","t"," ","I","n","t","r","o","d","u","c","t","i","o","n">>,
                             <<"p","y","t","h","o","n","/","a","g","e","n","t","-","i","n","t","r","o">>) >>, "none")])},
     search : {Failed([links |-> << >>]),
               Ok([links |-> <<LongTypeLink>>]),
               Ok([links |-> <<LongNextLink>>])},
     first : {NotOk(DomEmpty), Ok(DomLong)},
     rest : {NotOk(DomEmpty), Ok(DomAgent)},
     docs : {Ok(DomMcp)},
     docsRest : {NotOk(DomEmpty)}]

EndsWith(s, t) == Len(t) <= Len(s) /\ SubSeq(s, Len(s) - Len(t) + 1, Len(s)) = t

IsFirstPage(url) ==
    \E v \in Versions : url = StandardPages(getVersionUrl(v))[1].url

IsDocsPage(url) == \E i \in 1..Len(McpPages) : url = McpPages[i].url

\* the answer of a fixed site to a request
SiteAnswer(url) ==
    IF EndsWith(url, <<"/","s","e","a","r","c","h","i","n","d","e","x",".","j","s">>) THEN site.index
    ELSE IF Includes(url, <<"/","s","e","a","r","c","h",".","h","t","m","l","?","q","=">>) THEN site.search
    ELSE IF url = McpPages[1].url THEN site.docs
    ELSE IF IsDocsPage(url) THEN site.docsRest
    ELSE IF IsFirstPage(url) THEN site.first
    ELSE site.rest

\* a site free to answer every request with one answer of each kind that the
\* code tells apart
FewSite == [FreeSite EXCEPT !.few = TRUE]

\* one answer to searchindex.js for each way the code can take from it
IndexBranches ==
    {Failed([kind |-> "nowrap", data |-> NoTitlesData]),
     NotOk([kind |-> "nowrap", data |-> NoTitlesData]),
     Ok([kind |-> "nowrap", data |-> NoTitlesData]),
     Ok([kind |-> "badjson", data |-> NoTitlesData]),
     Ok([kind |-> "json",
         data |-> SearchData(
             << Doc(<<"A","g","e","n","t"," ","I","n","t","r","o","d","u","c","t","i","o","n">>,
                    <<"p","y","t","h","o","n","/","a","g","e","n","t","-","i","n","t","r","o">>),
                Doc(<<"M","C","P"," ","T","o","o","l","s">>,
                    <<"e","x","t","/","m","c","p">>) >>, "title")])}

\* one answer to search.html for each way the code can take from it
SearchBranches ==
    {Failed([links |-> << >>]),
     NotOk([links |-> << >>]),
     Ok([links |-> << >>]),
     Ok([links |-> << Link(<<"A","g","e","n","t">>,
                           <<"/","r","e","f","e","r","e","n","c","e","/","a","g","e","n","t",".","h","t","m","l">>,
                           <<"A","g","e","n","t"," ","(","P","y","t","h","o","n"," ","c","l","a","s","s",","," ","i","n"," ","a","u","t","o","g","e","n","_","c","o","r","e",")">>,
                           FALSE, << >>) >>])}

\* one answer to a page request for each way the code can take from it
PageBranches ==
    {Failed(DomEmpty), NotOk(DomAgent), Ok(DomFaq)}

\* the answers the site can give to the pending request of s
Answers(s, any, few) ==
    IF site.fixed THEN {SiteAnswer(s.fetched[Len(s.fetched)])}
    ELSE IF site.few THEN few
    ELSE any

(***************************************************************************)
(* Actions.                                                                *)
(***************************************************************************)
Init ==
    /\ proc = [p \in Procs |-> IdleProc("none")]
    /\ site = FreeSite
    /\ hist = << >>

InitFixed ==
    /\ proc = [p \in Procs |-> IdleProc("none")]
    /\ site \in FixedSites
    /\ hist = << >>

InitIndex ==
    /\ proc = [p \in Procs |-> IdleProc("none")]
    /\ site \in IndexSites
    /\ hist = << >>

InitFew ==
    /\ proc = [p \in Procs |-> IdleProc("none")]
    /\ site = FewSite
    /\ hist = << >>

InitDown ==
    /\ proc = [p \in Procs |-> IdleProc("none")]
    /\ site \in DownSites
    /\ hist = << >>

InitLong ==
    /\ proc = [p \in Procs |-> IdleProc("none")]
    /\ site \in LongSites
    /\ hist = << >>

\* the calls the server has received so far
Started == Len(hist) + Cardinality({q \in Procs : proc[q].pc # "idle"})

\* the server receives a tool call, in the first slot that is free: one
\* resolution at a time, or while another is in progress where the callers
\* overlap their calls; against a fixed site at most site.calls resolutions
\* are run, with the arguments of the first that completed
Call(p) ==
    /\ proc[p].pc = "idle"
    /\ \A q \in Procs : proc[q].pc = "idle" => p <= q
    /\ site.overlap \/ \A q \in Procs : proc[q].pc = "idle"
    /\ Started < site.calls
    /\ \E query \in site.queries, limit \in Limits, version \in Versions :
          /\ hist # << >> =>
                /\ query = hist[1].query
                /\ limit = hist[1].limit
                /\ version = hist[1].version
          /\ proc' = [proc EXCEPT ![p] = StartSearch(proc[p], query, limit, version)]
    /\ UNCHANGED <<site, hist>>

IndexResponse(p) ==
    /\ proc[p].pc = "awaitIndex"
    /\ \E o \in Answers(proc[p], IndexOutcomes, IndexBranches) :
          proc' = [proc EXCEPT ![p] = OnIndexResponse(Settle(proc[p], o), o)]
    /\ UNCHANGED <<site, hist>>

SearchResponse(p) ==
    /\ proc[p].pc = "awaitSearch"
    /\ \E o \in Answers(proc[p], SearchOutcomes, SearchBranches) :
          proc' = [proc EXCEPT ![p] = OnSearchResponse(Settle(proc[p], o), o)]
    /\ UNCHANGED <<site, hist>>

\* PageResponse with one results list for all the calls in progress: the page
\* is scanned into a list that holds the entries of the other call as well
PageResponseSharedList(p) ==
    /\ proc[p].pc = "awaitPage"
    /\ \E o \in Answers(proc[p], PageOutcomes, PageBranches) :
          LET shared == [proc[p] EXCEPT !.results = proc[3 - p].results \o @]
          IN  proc' = [proc EXCEPT ![p] = OnPageResponse(Settle(shared, o), o)]
    /\ UNCHANGED <<site, hist>>

PageResponse(p) ==
    /\ proc[p].pc = "awaitPage"
    /\ \E o \in Answers(proc[p], PageOutcomes, PageBranches) :
          proc' = [proc EXCEPT ![p] = OnPageResponse(Settle(proc[p], o), o)]
    /\ UNCHANGED <<site, hist>>

\* the handler formats the output (or the error) and the call is over
Respond(p) ==
    /\ proc[p].pc \in {"returned", "threw"}
    /\ proc' = [proc EXCEPT ![p] = IdleProc(ToolResponse(proc[p]))]
    /\ hist' = IF site.fixed
               THEN Append(hist, [query |-> proc[p].query, limit |-> proc[p].limit,
                                  version |-> proc[p].version, ret |-> proc[p].ret,
                                  resp |-> ToolResponse(proc[p])])
               ELSE hist
    /\ UNCHANGED site

Next ==
    \E p \in Procs :
        \/ Call(p)
        \/ IndexResponse(p)
        \/ SearchResponse(p)
        \/ PageResponse(p)
        \/ Respond(p)

\* any answers to any requests
Spec == Init /\ [][Next]_vars

\* repeated resolutions against a fixed site
SpecFixed == InitFixed /\ [][Next]_vars

\* resolutions against a site whose searchindex.js parses to a table
SpecIndex == InitIndex /\ [][Next]_vars

\* the request call p awaits is answered; a call awaits one request at a time
Response(p) == IndexResponse(p) \/ SearchResponse(p) \/ PageResponse(p)

\* every request that was issued is answered in the end
Fairness == \A p \in Procs : WF_vars(Response(p))

\* each request is answered in the end, in any of the ways the code tells apart
SpecLive == InitFew /\ [][Next]_vars /\ Fairness

\* resolutions against a site whose resources may be down
SpecDown == InitDown /\ [][Next]_vars

\* resolutions against a site that serves long texts
SpecLong == InitLong /\ [][Next]_vars

(***************************************************************************)
(* Properties.                                                             *)
(***************************************************************************)
\* the URLs of the curated pages requested by s so far, in order
PageFetches(s) ==
    SelectSeq(s.fetched,
              LAMBDA u : /\ u # searchIndexUrl(getVersionUrl(s.version))
                         /\ u # searchUrl(getVersionUrl(s.version), s.query))

\* the URLs of the whole selected page set, in order
AllPageUrls(s) ==
    [i \in 1..Len(pagesToSearch(s.query, s.version)) |->
        pagesToSearch(s.query, s.version)[i].url]

\* C1: a returned sequence never has more entries than the limit, whichever
\* strategy produced it
LengthWithinLimit ==
    \A p \in Procs :
        proc[p].pc = "returned" => Len(proc[p].ret) <= proc[p].limit

\* C1 witness: the crawl fallback returns exactly limit entries, limit being 2
LengthWithinLimitWitness ==
    \E p \in Procs :
        /\ proc[p].pc = "returned"
        /\ proc[p].fellBack
        /\ proc[p].limit = 2
        /\ Len(proc[p].ret) = 2

\* C2: no error leaves searchAutoGenDocs, so the handler never answers with
\* isError, whatever the fetches do
NeverFailsOutward ==
    \A p \in Procs : proc[p].pc # "threw" /\ proc[p].resp # "error"

\* C2 witness: a resolution returns after an error was caught during the crawl
\* of all pages of the selected set
NeverFailsOutwardWitness ==
    \E p \in Procs :
        /\ proc[p].pc = "returned"
        /\ proc[p].caught
        /\ proc[p].searchYield = "zero"
        /\ PageFetches(proc[p]) = AllPageUrls(proc[p])

\* C3: when the index strategy has yielded nothing, the request that follows
\* the one for searchindex.js is the one for the search page, and a
\* resolution does not return without it
SearchPageAfterEmptyIndex ==
    \A p \in Procs :
        LET s == proc[p]
        IN  s.idxYield = "zero" /\ (s.pc = "returned" \/ Len(s.fetched) >= 2)
            => /\ Len(s.fetched) >= 2
               /\ s.fetched[2] = searchUrl(getVersionUrl(s.version), s.query)

\* C4: when neither the index nor the search page yielded an entry, the
\* resolution returns only out of the crawl fallback; an empty sequence is
\* returned only by the crawl fallback, and for a limit of at least 1 only
\* after every page of the selected set was requested, in order
CrawlBeforeEmptyReturn ==
    \A p \in Procs :
        LET s == proc[p]
        IN  s.pc = "returned"
            => /\ s.idxYield # "some" /\ s.searchYield # "some" => s.fellBack
               /\ s.ret = << >> => s.fellBack
               /\ s.ret = << >> /\ s.limit >= 1 => PageFetches(s) = AllPageUrls(s)

\* C4 witness: index and search page were both requested and yielded nothing,
\* and the crawl returns the empty sequence for a limit of at least 1
CrawlBeforeEmptyReturnWitness ==
    \E p \in Procs :
        /\ proc[p].pc = "returned"
        /\ proc[p].idxYield = "zero"
        /\ proc[p].searchYield = "zero"
        /\ ~proc[p].caught
        /\ proc[p].limit >= 1
        /\ proc[p].ret = << >>

\* C5: once the index has yielded an entry nothing but searchindex.js is ever
\* requested, and once the search page has yielded an entry no curated page
\* is requested
StopsAtFirstNonEmpty ==
    \A p \in Procs :
        LET s == proc[p]
            baseUrl == getVersionUrl(s.version)
        IN  /\ s.idxYield = "some"
               => /\ s.pc = "returned"
                  /\ s.fetched = <<searchIndexUrl(baseUrl)>>
                  /\ ~s.fellBack
            /\ s.searchYield = "some"
               => /\ s.pc = "returned"
                  /\ s.fetched = <<searchIndexUrl(baseUrl), searchUrl(baseUrl, s.query)>>
                  /\ ~s.fellBack

\* C5 witness: the index yielded nothing and the search page yields entries
StopsAtFirstNonEmptyWitness ==
    \E p \in Procs :
        /\ proc[p].pc = "returned"
        /\ proc[p].idxYield = "zero"
        /\ proc[p].searchYield = "some"
        /\ Len(proc[p].ret) >= 1

\* C6: no two entries of a returned sequence have the same URL
NoRepeatedUrl ==
    \A p \in Procs :
        proc[p].pc = "returned"
        => \A i, j \in 1..Len(proc[p].ret) :
              i # j => proc[p].ret[i].url # proc[p].ret[j].url

\* the URL lies under the base: it starts with the base followed by '/'
InTree(url, base) == StartsWith(url, base \o <<"/">>)

\* C7: every URL of a returned sequence lies in the tree of the requested
\* version, or under the version-independent base for an MCP query
UrlsInRequestedTree ==
    \A p \in Procs :
        LET s == proc[p]
        IN  s.pc = "returned"
            => \A i \in 1..Len(s.ret) :
                  \/ InTree(s.ret[i].url, getVersionUrl(s.version))
                  \/ IsMcpQuery(s.query) /\ InTree(s.ret[i].url, AUTOGEN_BASE_URL)

\* C8: against one site, resolutions with the same arguments return the same
\* sequence and give the same tool response
SameInputsSameOutput ==
    \A i, j \in 1..Len(hist) :
        /\ hist[i].query = hist[j].query
        /\ hist[i].limit = hist[j].limit
        /\ hist[i].version = hist[j].version
        => hist[i].ret = hist[j].ret /\ hist[i].resp = hist[j].resp

\* C8 witness: two resolutions with the same arguments have completed, the
\* first with a sequence of two entries
SameInputsSameOutputWitness ==
    /\ Len(hist) >= 2
    /\ hist[1].query = hist[2].query
    /\ hist[1].limit = hist[2].limit
    /\ hist[1].version = hist[2].version
    /\ Len(hist[1].ret) = 2

\* the table a fixed site serves as searchindex.js
ServedTable == site.index.body.data

\* positions of the served table that hold a title and a document name
PairedDocs == 1..Min(Len(ServedTable.titles), Len(ServedTable.docnames))

\* paired positions whose lowercased title or lowercased document name holds
\* at least one term of the query
MatchingDocs(query) ==
    {i \in PairedDocs :
        \E k \in 1..Len(QueryTerms(query)) :
            \/ Includes(ToLowerCase(ServedTable.titles[i]), QueryTerms(query)[k])
            \/ Includes(ToLowerCase(ServedTable.docnames[i]), QueryTerms(query)[k])}

\* the category a document name stands for
CategoryOf(docname) ==
    CASE Includes(docname, <<"p","y","t","h","o","n","/">>)
           -> <<"A","P","I"," ","R","e","f","e","r","e","n","c","e">>
      [] ~Includes(docname, <<"p","y","t","h","o","n","/">>)
         /\ Includes(docname, <<"u","s","e","r","-","g","u","i","d","e","/">>)
           -> <<"U","s","e","r"," ","G","u","i","d","e">>
      [] ~Includes(docname, <<"p","y","t","h","o","n","/">>)
         /\ ~Includes(docname, <<"u","s","e","r","-","g","u","i","d","e","/">>)
         /\ Includes(docname, <<"t","u","t","o","r","i","a","l","s","/">>)
           -> <<"T","u","t","o","r","i","a","l">>
      [] ~Includes(docname, <<"p","y","t","h","o","n","/">>)
         /\ ~Includes(docname, <<"u","s","e","r","-","g","u","i","d","e","/">>)
         /\ ~Includes(docname, <<"t","u","t","o","r","i","a","l","s","/">>)
         /\ Includes(docname, <<"c","o","m","p","o","n","e","n","t","s","/">>)
           -> <<"C","o","r","e"," ","G","u","i","d","e">>
      [] OTHER -> <<"D","o","c","u","m","e","n","t","a","t","i","o","n">>

\* the entry expected for the document at position i of the served table
ExpectedEntry(i, version) ==
    [title |-> ServedTable.titles[i],
     url |-> AUTOGEN_BASE_URL \o <<"/">> \o version \o <<"/">>
             \o ServedTable.docnames[i] \o <<".","h","t","m","l">>,
     snippet |-> CategoryOf(ServedTable.docnames[i]),
     type |-> CategoryOf(ServedTable.docnames[i])]

\* the expected entries of the positions in docs, in table order
RECURSIVE EntriesOf(_, _, _)
EntriesOf(docs, i, version) ==
    IF i > Len(ServedTable.titles) THEN << >>
    ELSE (IF i \in docs THEN <<ExpectedEntry(i, version)>> ELSE << >>)
         \o EntriesOf(docs, i + 1, version)

\* C9: the index strategy returns the first limit entries of the list of all
\* matching documents sorted by descending number of title matches
IndexSortsThenTruncates ==
    \A p \in Procs :
        LET s == proc[p]
        IN  s.pc = "returned" /\ s.idxYield = "some"
            => s.ret = Slice(SortByTitleMatches(EntriesOf(MatchingDocs(s.query), 1, s.version),
                                                QueryTerms(s.query)),
                             s.limit)

\* C10: when the served table has at most limit matching documents, the index
\* strategy answers as soon as one matches, and its sequence holds the
\* expected entry of every matching document and nothing else
IndexReturnsEveryMatch ==
    \A p \in Procs :
        LET s == proc[p]
            matching == MatchingDocs(s.query)
        IN  s.idxYield # "none" /\ Cardinality(matching) <= s.limit
            => /\ matching # {} => s.pc = "returned" /\ s.idxYield = "some"
               /\ s.idxYield = "some"
                  => /\ Len(s.ret) = Cardinality(matching)
                     /\ \A i \in matching :
                           \E k \in 1..Len(s.ret) : s.ret[k] = ExpectedEntry(i, s.version)
                     /\ \A k \in 1..Len(s.ret) :
                           \E i \in matching : s.ret[k] = ExpectedEntry(i, s.version)

\* C10 witness: query 'agent' returns 'Agent Introduction' with a URL ending in
\* '/python/agent-intro.html' and category 'API Reference', next to an entry
\* matched by its document name only
IndexReturnsEveryMatchWitness ==
    \E p \in Procs :
        LET s == proc[p]
        IN  /\ s.pc = "returned" /\ s.idxYield = "some"
            /\ s.query = <<"a","g","e","n","t">>
            /\ Cardinality(MatchingDocs(s.query)) = 2
            /\ \E k \in 1..Len(s.ret) :
                  /\ s.ret[k].title = <<"A","g","e","n","t"," ","I","n","t","r","o","d","u","c","t","i","o","n">>
                  /\ EndsWith(s.ret[k].url, <<"/","p","y","t","h","o","n","/","a","g","e","n","t","-","i","n","t","r","o",".","h","t","m","l">>)
                  /\ s.ret[k].type = <<"A","P","I"," ","R","e","f","e","r","e","n","c","e">>
            /\ \E k \in 1..Len(s.ret) :
                  s.ret[k].title = <<"C","o","r","e">>


\* C11: a served table whose titles and docnames differ in length is taken as
\* a parse failure: the index strategy yields nothing and the search page is
\* requested next
UnequalTableYieldsNothing ==
    \A p \in Procs :
        LET s == proc[p]
        IN  /\ s.idxYield # "none"
            /\ Len(ServedTable.titles) # Len(ServedTable.docnames)
            => /\ s.idxYield = "zero"
               /\ Len(s.fetched) >= 2
               /\ s.fetched[2] = searchUrl(getVersionUrl(s.version), s.query)

\* the site serves a searchindex.js without the Search.setIndex(...) wrapper
\* or with a wrapper around text that is not JSON
IndexUnreadable ==
    site.index.status = "ok" /\ site.index.body.kind \in {"nowrap", "badjson"}

\* C12: a searchindex.js answered ok whose payload cannot be extracted or
\* parsed yields nothing without raising, and the search page is the next
\* request
UnreadableIndexFallsThrough ==
    \A p \in Procs :
        LET s == proc[p]
        IN  IndexUnreadable /\ s.answered >= 1
            => /\ s.idxYield = "zero"
               /\ s.pc # "threw"
               /\ Len(s.fetched) >= 2
               /\ s.fetched[2] = searchUrl(getVersionUrl(s.version), s.query)

\* C12 witness: text that is not JSON was served and the search page is awaited
UnreadableIndexFallsThroughWitness ==
    \E p \in Procs :
        /\ site.index.status = "ok"
        /\ site.index.body.kind = "badjson"
        /\ proc[p].pc = "awaitSearch"
        /\ ~proc[p].caught

\* every curated page under the version-independent base fails to be fetched
DocsDown == site.docs.status # "ok" /\ site.docsRest.status # "ok"

\* C13: for a domain-specific query whose index and search page yield nothing,
\* when every curated page of the domain-specific set fails, the resolution
\* raises no error and returns the empty sequence, after requesting each page
AllDocsDownReturnsEmpty ==
    \A p \in Procs :
        LET s == proc[p]
        IN  /\ IsMcpQuery(s.query) /\ DocsDown
            /\ s.idxYield # "some" /\ s.searchYield # "some"
            => /\ s.pc # "threw" /\ s.resp # "error"
               /\ s.results = << >>
               /\ s.pc = "returned"
                  => /\ s.ret = << >>
                     /\ s.limit >= 1 => PageFetches(s) = AllPageUrls(s)

\* C13 witness: query 'mcp', the first page of the set fails at network level,
\* the others answer with a status that is not ok, and the empty sequence is
\* returned after the 13 pages were requested
AllDocsDownReturnsEmptyWitness ==
    \E p \in Procs :
        /\ proc[p].pc = "returned"
        /\ proc[p].query = <<"m","c","p">>
        /\ site.docs.status = "fail"
        /\ site.docsRest.status = "notok"
        /\ Len(PageFetches(proc[p])) = 13
        /\ proc[p].ret = << >>

\* every resource under the tree of a version fails to be fetched
VersionDown ==
    /\ site.index.status # "ok" /\ site.search.status # "ok"
    /\ site.first.status # "ok" /\ site.rest.status # "ok"

\* C14 as claimed: against an invalid version every resolution returns the
\* empty sequence without an error, whatever the query
InvalidVersionYieldsNothing ==
    \A p \in Procs :
        LET s == proc[p]
        IN  VersionDown
            => /\ s.pc # "threw" /\ s.resp # "error"
               /\ s.pc = "returned" => s.ret = << >>

\* C14 as amended: against an invalid version no resolution ends in an error,
\* and every resolution of a query that is not domain-specific returns the
\* empty sequence
InvalidVersionYieldsNothingStandard ==
    \A p \in Procs :
        LET s == proc[p]
        IN  VersionDown
            => /\ s.pc # "threw" /\ s.resp # "error"
               /\ s.pc = "returned" /\ ~IsMcpQuery(s.query) => s.ret = << >>

\* C14 witness: the version is down while the version-independent pages are
\* up, and the empty query returns the empty sequence after the 7 pages of
\* the version were requested
InvalidVersionYieldsNothingStandardWitness ==
    \E p \in Procs :
        /\ VersionDown
        /\ site.docs.status = "ok"
        /\ proc[p].pc = "returned"
        /\ proc[p].query = << >>
        /\ Len(PageFetches(proc[p])) = 7
        /\ proc[p].ret = << >>

\* C15: the snippet of every entry of a returned sequence has at most 200
\* characters
SnippetWithin200 ==
    \A p \in Procs :
        proc[p].pc = "returned"
        => \A i \in 1..Len(proc[p].ret) : Len(proc[p].ret[i].snippet) <= 200

\* C16: the title of every entry of a returned sequence is non-empty
TitleNonEmpty ==
    \A p \in Procs :
        proc[p].pc = "returned"
        => \A i \in 1..Len(proc[p].ret) : proc[p].ret[i].title # << >>

\* the requests of s that have not been answered
Outstanding(s) == Len(s.fetched) - s.answered

\* C17: a resolution has at most one request outstanding, exactly when it is
\* suspended in an await, and its requests are searchindex.js first, then the
\* search page where it is requested, then the curated pages in listed order
OneFetchAtATime ==
    \A p \in Procs :
        LET s == proc[p]
            baseUrl == getVersionUrl(s.version)
            n == Len(s.fetched)
            urls == AllPageUrls(s)
        IN  /\ Outstanding(s) \in {0, 1}
            /\ Outstanding(s) = 1 <=> s.pc \in {"awaitIndex", "awaitSearch", "awaitPage"}
            /\ n >= 1 => s.fetched[1] = searchIndexUrl(baseUrl)
            /\ n >= 2
               => LET first == IF s.fetched[2] = searchUrl(baseUrl, s.query) THEN 3 ELSE 2
                  IN  /\ n - first + 1 <= Len(urls)
                      /\ \A k \in first..n : s.fetched[k] = urls[k - first + 1]

\* C17 witness: the second curated page is awaited after searchindex.js, the
\* search page and the first curated page were answered
OneFetchAtATimeWitness ==
    \E p \in Procs :
        /\ proc[p].pc = "awaitPage"
        /\ Len(proc[p].fetched) = 4
        /\ proc[p].answered = 3
        /\ proc[p].fetched[2] = searchUrl(getVersionUrl(proc[p].version), proc[p].query)
        /\ proc[p].fetched[4] = AllPageUrls(proc[p])[2]

\* no URL is requested twice by s
RequestedOnce(s) ==
    \A i, j \in 1..Len(s.fetched) : i # j => s.fetched[i] # s.fetched[j]

\* a step of call p: the crawl, once entered, is not entered again, and a page
\* answered with a failure or a status that is not ok leaves the entries as
\* they are and is followed by the request for the next page of the set
FailedPageSkipped(p) ==
    LET s == proc[p]
        t == proc'[p]
        pages == pagesToSearch(s.query, s.version)
    IN  /\ s.fellBack /\ t.pc # "idle" => t.fellBack /\ t.pageIdx >= s.pageIdx
        /\ s.pc = "awaitPage" /\ t # s /\ t.last # "ok"
           => /\ t.results = s.results
              /\ t.pageIdx = s.pageIdx + 1
              /\ s.pageIdx < Len(pages)
                 => /\ t.pc = "awaitPage"
                    /\ t.fetched = Append(s.fetched, pages[s.pageIdx + 1].url)
              /\ s.pageIdx = Len(pages) => t.pc = "returned" /\ t.fetched = s.fetched

\* C18: no resource is requested twice in a resolution, the crawl runs at most
\* once, and a curated page that fails is skipped: the entries are kept and
\* the next page is requested
NoRetryFailedPageSkipped ==
    /\ [](\A p \in Procs : RequestedOnce(proc[p]))
    /\ [][\A p \in Procs : FailedPageSkipped(p)]_vars

\* C18 witness: the third curated page or a later one is awaited right after a
\* page failed at network level, with an entry of an earlier page kept
NoRetryFailedPageSkippedWitness ==
    \E p \in Procs :
        /\ proc[p].pc = "awaitPage"
        /\ proc[p].last = "fail"
        /\ proc[p].pageIdx >= 3
        /\ Len(proc[p].results) = 1

\* the number of requests of s stays within 2 + N, N being the size of the
\* selected page set: 13 for a domain-specific query, 7 otherwise
FetchesWithinBound(s) ==
    LET N == Len(pagesToSearch(s.query, s.version))
    IN  /\ N = IF IsMcpQuery(s.query) THEN 13 ELSE 7
        /\ Len(s.fetched) <= 2 + N

\* C19: when every request is answered in the end, a resolution that was
\* started returns, and it issues at most 2 + N requests
EventuallyReturns ==
    /\ [](\A p \in Procs : FetchesWithinBound(proc[p]))
    /\ \A p \in Procs :
          (proc[p].pc \in {"awaitIndex", "awaitSearch", "awaitPage"})
             ~> (proc[p].pc = "returned")

\* C19 witness: a resolution returns after 2 + 13 requests
EventuallyReturnsWitness ==
    \E p \in Procs :
        /\ proc[p].pc = "returned"
        /\ IsMcpQuery(proc[p].query)
        /\ Len(proc[p].fetched) = 15

\* no curated page of the version tree that the site serves ok has the query
\* in its content (main, .content, article), case-insensitively
NoPageContentHolds(query) ==
    \A a \in {site.first, site.rest} :
        a.status = "ok" => ~Includes(ToLowerCase(a.body.content), ToLowerCase(query))

\* C20: in the crawl for a query that is not domain-specific, pages whose
\* content does not hold the query contribute no entry
ContentGatesExtraction ==
    \A p \in Procs :
        LET s == proc[p]
        IN  s.fellBack /\ ~IsMcpQuery(s.query) /\ NoPageContentHolds(s.query)
            => s.results = << >>

(***************************************************************************)
(* The crawl against sites whose search index and search page yield        *)
(* nothing.                                                                *)
(***************************************************************************)
\* a contents page: one heading, and a link with the text of the heading
\* that leads to another page
DomToc ==
    [title |-> <<"C","o","n","t","e","n","t","s">>,
     h1 |-> <<"A","g","e","n","t","s">>,
     content |-> <<"A","g","e","n","t","s"," ","A","g","e","n","t","s">>,
     text |-> <<"C","o","n","t","e","n","t","s"," ","A","g","e","n","t","s"," ","A","g","e","n","t","s">>,
     elems |-> <<
        Elem("h", <<"A","g","e","n","t","s">>,
             <<"a","g","e","n","t","s">>, << >>, FALSE, << >>, << >>) >>,
     links |-> <<
        PageLink(<<"A","g","e","n","t","s">>,
                 <<"/","u","s","e","r","-","g","u","i","d","e","/","a","g","e","n","t","s",".","h","t","m","l">>,
                 <<"A","g","e","n","t","s">>,
                 << >>) >>]

\* a page with the same heading twice, neither with an id
DomTwin ==
    [title |-> <<"E","x","a","m","p","l","e","s">>,
     h1 |-> <<"A","g","e","n","t"," ","e","x","a","m","p","l","e">>,
     content |-> <<"A","g","e","n","t"," ","e","x","a","m","p","l","e"," ","A","g","e","n","t"," ","e","x","a","m","p","l","e">>,
     text |-> <<"E","x","a","m","p","l","e","s"," ","A","g","e","n","t"," ","e","x","a","m","p","l","e"," ","A","g","e","n","t"," ","e","x","a","m","p","l","e">>,
     elems |-> <<
        Elem("h", <<"A","g","e","n","t"," ","e","x","a","m","p","l","e">>,
             << >>, << >>, FALSE, << >>, << >>),
        Elem("h", <<"A","g","e","n","t"," ","e","x","a","m","p","l","e">>,
             << >>, << >>, TRUE, <<"A","g","e","n","t"," ","e","x","a","m","p","l","e">>, << >>) >>,
     links |-> << >>]

\* the fixed sites whose searchindex.js and search.html yield nothing
CrawlSites ==
    [fixed : {TRUE}, few : {FALSE}, calls : {1}, queries : {Queries}, overlap : {FALSE},
     index : {Failed([kind |-> "nowrap", data |-> NoTitlesData]),
              NotOk([kind |-> "nowrap", data |-> NoTitlesData])},
     search : {NotOk([links |-> << >>]), Ok([links |-> << >>])},
     first : {NotOk(DomEmpty), Ok(DomToc), Ok(DomTwin), Ok(DomFaq)},
     rest : {NotOk(DomEmpty), Ok(DomToc), Ok(DomAgent)},
     docs : {Failed(DomEmpty), Ok(DomMcp)},
     docsRest : {NotOk(DomEmpty), Ok(DomMcp)}]

InitCrawl ==
    /\ proc = [p \in Procs |-> IdleProc("none")]
    /\ site \in CrawlSites
    /\ hist = << >>

\* resolutions that end in the crawl
SpecCrawl == InitCrawl /\ [][Next]_vars

\* the pages of the crawl of s that have been dealt with
PagesDone(s) == 1..(s.pageIdx - 1)

\* the candidates of the heading, text-block and link scans of a page for a
\* query: what each scan step adds to an empty list
ScanCandidates(dom, page, query, version) ==
    LET queryLower == ToLowerCase(query)
        pageTitle == IF dom.title # << >> THEN dom.title ELSE dom.h1
        linkBase == IF IsMcpQuery(query) THEN McpBaseUrl ELSE getVersionUrl(version)
        gated == Includes(ToLowerCase(dom.content), queryLower)
        one(r) == {r[k] : k \in 1..Len(r)}
    IN  UNION ({one(HeadingStep(<< >>, dom.elems[k], page, queryLower, 1))
                    : k \in {j \in 1..Len(dom.elems) : gated}}
               \cup {one(BlockStep(<< >>, dom.elems[k], page, pageTitle, queryLower, 1))
                    : k \in {j \in 1..Len(dom.elems) : gated}}
               \cup {one(LinkStep(<< >>, dom.links[k], page, linkBase, queryLower, 1))
                    : k \in 1..Len(dom.links)})

\* C21: in the crawl, a candidate of the heading, text-block and link scans
\* is dropped only for an entry already collected with the same URL and the
\* same title: no two collected entries have the same (url, title) pair, and
\* while the list is below the limit every candidate of every page scanned
\* so far is in it with its URL and its title
PairDedupOnly ==
    \A p \in Procs :
        LET s == proc[p]
            pages == pagesToSearch(s.query, s.version)
        IN  s.fellBack /\ s.pc \in {"awaitPage", "returned"}
            => /\ \A i, j \in 1..Len(s.results) :
                      /\ s.results[i].url = s.results[j].url
                      /\ s.results[i].title = s.results[j].title
                      => i = j
               /\ Len(s.results) < s.limit
                  => \A i \in PagesDone(s) :
                        SiteAnswer(pages[i].url).status = "ok"
                        => \A c \in ScanCandidates(SiteAnswer(pages[i].url).body,
                                                   pages[i], s.query, s.version) :
                              IsDuplicatePair(s.results, c.url, c.title)


\* C22: in the crawl the accumulated list never holds more than limit
\* entries, and no curated page is requested once it holds limit entries
ResultsWithinLimit ==
    \A p \in Procs :
        LET s == proc[p]
        IN  s.fellBack
            => /\ Len(s.results) <= s.limit
               /\ s.pc = "awaitPage" => Len(s.results) < s.limit

\* a crawl stopped by the limit before the last page, after a page that had
\* more candidates than the limit
ResultsWithinLimitWitness ==
    \E p \in Procs :
        LET s == proc[p]
            pages == pagesToSearch(s.query, s.version)
        IN  /\ s.fellBack /\ s.pc = "returned"
            /\ s.limit >= 1
            /\ Len(s.results) = s.limit
            /\ s.pageIdx <= Len(pages)
            /\ \E i \in PagesDone(s) :
                  /\ SiteAnswer(pages[i].url).status = "ok"
                  /\ Cardinality(ScanCandidates(SiteAnswer(pages[i].url).body,
                                                pages[i], s.query, s.version)) > s.limit

\* queries with and without the markers, in upper and lower case
ClassifyQueries ==
    { <<"M","C","P"," ","t","o","o","l","s">>,
      <<"M","o","d","e","l"," ","C","o","n","t","e","x","t"," ","P","r","o","t","o","c","o","l">>,
      <<"A","u","t","o","G","e","n","_","E","x","t">>,
      <<"m","o","d","e","l"," ","c","o","n","t","e","x","t">>,
      <<"a","g","e","n","t">> }

\* the fixed sites of callers that send the queries above
ClassifySites ==
    [fixed : {TRUE}, few : {FALSE}, calls : {1}, queries : {ClassifyQueries},
     overlap : {FALSE},
     index : {Failed([kind |-> "nowrap", data |-> NoTitlesData]),
              NotOk([kind |-> "nowrap", data |-> NoTitlesData])},
     search : {NotOk([links |-> << >>])},
     first : {NotOk(DomEmpty), Ok(DomAgent)},
     rest : {NotOk(DomEmpty)},
     docs : {NotOk(DomEmpty), Ok(DomMcp)},
     docsRest : {NotOk(DomEmpty)}]

InitClassify ==
    /\ proc = [p \in Procs |-> IdleProc("none")]
    /\ site \in ClassifySites
    /\ hist = << >>

\* resolutions of queries with and without the markers
SpecClassify == InitClassify /\ [][Next]_vars

\* 'mcp', 'model context protocol', 'autogen_ext'
MarkerTerms ==
    { <<"m","c","p">>,
      <<"m","o","d","e","l"," ","c","o","n","t","e","x","t"," ","p","r","o","t","o","c","o","l">>,
      <<"a","u","t","o","g","e","n","_","e","x","t">> }

\* the lowercase form of the query contains a marker
Marked(query) == \E m \in MarkerTerms : Includes(ToLowerCase(query), m)

\* version strings, among them the empty one and the first segments of the
\* version-independent pages
VersionStrings ==
    { <<"s","t","a","b","l","e">>, <<"d","e","v">>, <<"v","0",".","4",".","0">>, << >>, <<"d","o","c","s">>, <<"b","l","o","g">>, <<"d","o","c","s","/","F","A","Q">>, <<".",".">> }

\* 13 pages under https://microsoft.github.io/autogen (docs/..., blog), 7
\* under the base URL of each version, and no URL in both sets
PageSetsApart ==
    /\ Len(McpPages) = 13
    /\ \A i \in 1..13 :
          \/ StartsWith(McpPages[i].url, AUTOGEN_BASE_URL \o <<"/","d","o","c","s","/">>)
          \/ McpPages[i].url = AUTOGEN_BASE_URL \o <<"/","b","l","o","g">>
    /\ \A v \in VersionStrings :
          LET pages == StandardPages(getVersionUrl(v))
          IN  /\ Len(pages) = 7
              /\ \A i \in 1..7 :
                    /\ StartsWith(pages[i].url, AUTOGEN_BASE_URL \o <<"/">> \o v \o <<"/">>)
                    /\ \A j \in 1..13 : pages[i].url # McpPages[j].url

\* C23: the crawl takes the version-independent pages exactly when the
\* lowercase query contains a marker and the pages of the requested version
\* otherwise, requests only pages of that set, in their listed order, and the
\* two sets share no URL
ClassifiedCrawl ==
    /\ PageSetsApart
    /\ \A p \in Procs :
          LET s == proc[p]
              set == IF Marked(s.query) THEN McpPages
                     ELSE StandardPages(getVersionUrl(s.version))
              req == PageFetches(s)
          IN  s.fellBack
              => /\ Len(req) <= Len(set)
                 /\ \A k \in 1..Len(req) : req[k] = set[k].url

\* C23 witness: a query with a marker in upper case has requested the first
\* two of the version-independent pages
ClassifiedCrawlWitness ==
    \E p \in Procs :
        LET s == proc[p]
        IN  /\ s.fellBack
            /\ Marked(s.query) /\ s.query # ToLowerCase(s.query)
            /\ Len(PageFetches(s)) = 2
            /\ PageFetches(s)[2] = McpPages[2].url

\* the queries of callers that overlap their calls
PairQueries ==
    { <<"a","g","e","n","t">>, <<"m","c","p">> }

\* the fixed sites of two callers whose calls overlap
PairSites ==
    [fixed : {TRUE}, few : {FALSE}, calls : {2}, queries : {PairQueries},
     overlap : {TRUE},
     index : {NotOk([kind |-> "nowrap", data |-> NoTitlesData]),
              Ok([kind |-> "json",
                  data |-> SearchData(
                      << Doc(<<"A","g","e","n","t"," ","I","n","t","r","o","d","u","c","t","i","o","n">>,
                             <<"p","y","t","h","o","n","/","a","g","e","n","t","-","i","n","t","r","o">>) >>, "none")])},
     search : {NotOk([links |-> << >>])},
     first : {Ok(DomToc)},
     rest : {NotOk(DomEmpty), Ok(DomFaq)},
     docs : {Ok(DomMcp)},
     docsRest : {NotOk(DomEmpty)}]

InitPair ==
    /\ proc = [p \in Procs |-> IdleProc("none")]
    /\ site \in PairSites
    /\ hist = << >>

\* two resolutions whose suspensions interleave
SpecPair == InitPair /\ [][Next]_vars

\* resolution s taken to its end with no other call in between, each request
\* answered as the site answers it
RECURSIVE RunAlone(_)
RunAlone(s) ==
    IF s.pc \notin {"awaitIndex", "awaitSearch", "awaitPage"} THEN s
    ELSE LET o == SiteAnswer(s.fetched[Len(s.fetched)])
         IN  RunAlone(IF s.pc = "awaitIndex" THEN OnIndexResponse(Settle(s, o), o)
                      ELSE IF s.pc = "awaitSearch" THEN OnSearchResponse(Settle(s, o), o)
                      ELSE OnPageResponse(Settle(s, o), o))

\* the resolution of the arguments of s run alone from its start
Alone(s) == RunAlone(StartSearch(IdleProc("none"), s.query, s.limit, s.version))

\* C24: a resolution that has returned while another call was or is in
\* progress has issued the requests and returns the sequence of the same
\* resolution run alone against the same answers
ResolutionsDoNotInterfere ==
    \A p \in Procs :
        LET s == proc[p]
        IN  s.pc \in {"returned", "threw"}
            => /\ s.pc = Alone(s).pc
               /\ s.ret = Alone(s).ret
               /\ s.fetched = Alone(s).fetched

\* C24 witness: a crawl for 'mcp' has returned entries while a crawl for
\* 'agent', begun before it, holds entries of its own and awaits a page
ResolutionsDoNotInterfereWitness ==
    /\ proc[1].pc = "awaitPage" /\ proc[1].query = <<"a","g","e","n","t">>
    /\ Len(proc[1].results) >= 1
    /\ proc[2].pc = "returned" /\ proc[2].query = <<"m","c","p">>
    /\ proc[2].fellBack /\ Len(proc[2].ret) >= 1

\* C25: a crawl that returns fewer entries than a limit of 1 or more has
\* requested every page of its page set
NoEarlyStop ==
    \A p \in Procs :
        LET s == proc[p]
        IN  /\ s.fellBack /\ s.pc = "returned"
            /\ s.limit >= 1
            /\ Len(s.ret) < s.limit
            => PageFetches(s) = AllPageUrls(s)
====
